---------------------------- MODULE Spec2Model ----------------------------
(***************************************************************************)
(* A model of log2curl: the prefix stripper, the field extractors, the     *)
(* balanced-block scanner, body selection, the body unwrapper, the command *)
(* assembler and the convert command that drives them.                     *)
(*                                                                         *)
(* Text is a TLA+ string; a character is a string of length 1.  Positions  *)
(* in the helpers are 1-based; the scanner's own indices (i, blockStart,   *)
(* startIndex, endIndex) keep the 0-based values of the source.            *)
(***************************************************************************)
EXTENDS Integers, Sequences, FiniteSets, TLC

VARIABLES
    pc,           \* position of the operation under way
    text,         \* the input text (clipboard content / function argument)
    stripped,     \* stripLogPrefixes(text)
    restripped,   \* stripLogPrefixes(stripped)
    i,            \* extractBalancedBlocks: loop index (0-based)
    depth,        \* extractBalancedBlocks: brace depth
    blockStart,   \* extractBalancedBlocks: start of the open block, or -1
    inString,     \* extractBalancedBlocks: inside a quoted string
    stringChar,   \* extractBalancedBlocks: the quote that opened the string
    blocks,       \* extractBalancedBlocks: the TextBlocks emitted so far
    scored,       \* extractBody: the scored blocks, sorted
    rawBody,      \* extractBody: the result, <<>> for null
    url,          \* convert: extractUrl(text), <<>> for null
    method,       \* convert: the HTTP method, <<>> for null
    token,        \* convert: extractToken(text), <<>> for null
    customHeaders,\* convert: extractCustomHeaders(text)
    parsed,       \* convert: the parsed body; the argument of unwrapBodyIfNeeded
    unwrapped,    \* the result of unwrapBodyIfNeeded
    bodyJson,     \* convert: the body of the command, <<>> for null
    curl,         \* convert: the command built by buildCurl
    shown,        \* convert: the messages and prompts shown, in order
    emitted       \* convert: where the command was delivered, in order

stripVars  == <<stripped, restripped>>
scanVars   == <<i, depth, blockStart, inString, stringChar, blocks>>
bodyVars   == <<scored, rawBody>>
unwrapVars == <<parsed, unwrapped>>
convVars   == <<url, method, token, customHeaders, bodyJson, curl, shown, emitted>>
vars       == <<pc, text, stripVars, scanVars, bodyVars, unwrapVars, convVars>>

\* null and a present value
Absent == <<>>
Some(v) == <<v>>

(***************************************************************************)
(* Characters and character classes of the regular expressions.            *)
(***************************************************************************)
At(s, p) == IF p >= 1 /\ p <= Len(s) THEN SubSeq(s, p, p) ELSE ""

From(s, p) == IF p > Len(s) THEN "" ELSE SubSeq(s, p, Len(s))

UpperStr == "ABCDEFGHIJKLMNOPQRSTUVWXYZ"
LowerStr == "abcdefghijklmnopqrstuvwxyz"
DigitStr == "0123456789"

CharsOf(s) == {SubSeq(s, k, k) : k \in 1..Len(s)}

Upper == CharsOf(UpperStr)
Lower == CharsOf(LowerStr)
Digit == CharsOf(DigitStr)
\* \w
Word  == Upper \cup Lower \cup Digit \cup {"_"}
\* \s (the white space that occurs in the modelled inputs)
Space == {" ", "\t", "\n", "\r", "\f"}

ToLowerChar(c) ==
    IF c \in Upper
    THEN At(LowerStr, CHOOSE k \in 1..26 : At(UpperStr, k) = c)
    ELSE c

RECURSIVE ToLower(_)
ToLower(s) == IF s = "" THEN "" ELSE ToLowerChar(Head(s)) \o ToLower(Tail(s))

\* The position after the longest run of characters of class C that starts at p.
RECURSIVE SkipClass(_, _, _)
SkipClass(s, p, C) ==
    IF p <= Len(s) /\ At(s, p) \in C THEN SkipClass(s, p + 1, C) ELSE p

\* The position after the longest run of characters outside class C from p.
RECURSIVE SkipNotClass(_, _, _)
SkipNotClass(s, p, C) ==
    IF p <= Len(s) /\ At(s, p) \notin C THEN SkipNotClass(s, p + 1, C) ELSE p

\* s has the literal lit at position p.
HasAt(s, p, lit) ==
    /\ p >= 1
    /\ p + Len(lit) - 1 <= Len(s)
    /\ (lit = "" \/ SubSeq(s, p, p + Len(lit) - 1) = lit)

\* s has lit at position p, compared case-insensitively (the /i flag).
HasAtI(s, p, lit) ==
    /\ p >= 1
    /\ p + Len(lit) - 1 <= Len(s)
    /\ (lit = "" \/ ToLower(SubSeq(s, p, p + Len(lit) - 1)) = ToLower(lit))

AllIn(s, from, to, C) == \A k \in from..to : At(s, k) \in C

\* text.split('\n')
RECURSIVE SplitLines(_)
SplitLines(s) ==
    LET p == SkipNotClass(s, 1, {"\n"})
    IN  IF p > Len(s) THEN <<s>>
        ELSE <<SubSeq(s, 1, p - 1)>> \o SplitLines(From(s, p + 1))

\* lines.join('\n')
RECURSIVE JoinLines(_)
JoinLines(ls) ==
    IF Len(ls) = 0 THEN ""
    ELSE IF Len(ls) = 1 THEN ls[1]
    ELSE ls[1] \o "\n" \o JoinLines(Tail(ls))

(***************************************************************************)
(* stripLogPrefixes.  Each Match operator gives the position after the     *)
(* anchored match of one regular expression on a line, or 0 when the       *)
(* expression does not match; replace(re, '') then keeps From(line, end).  *)
(***************************************************************************)
\* /^flutter:\s*/i
MatchFlutter(line) ==
    IF HasAtI(line, 1, "flutter:") THEN SkipClass(line, 9, Space) ELSE 0

\* /^[IDWEV]\/[\w.]+\s*\(\s*\d+\):\s*/
MatchLogcat(line) ==
    LET a == SkipClass(line, 3, Word \cup {"."})
        b == SkipClass(line, a, Space)
        c == SkipClass(line, b + 1, Space)
        d == SkipClass(line, c, Digit)
    IN  IF /\ At(line, 1) \in {"I", "D", "W", "E", "V"}
           /\ At(line, 2) = "/"
           /\ a > 3
           /\ At(line, b) = "("
           /\ d > c
           /\ HasAt(line, d, "):")
        THEN SkipClass(line, d + 2, Space)
        ELSE 0

\* /^\[\d{4}[^\]]*\]\s*[\w.]*:\s*/
MatchLaravel(line) ==
    LET a == SkipNotClass(line, 6, {"]"})
        b == SkipClass(line, a + 1, Space)
        c == SkipClass(line, b, Word \cup {"."})
    IN  IF /\ At(line, 1) = "["
           /\ AllIn(line, 2, 5, Digit)
           /\ At(line, a) = "]"
           /\ At(line, c) = ":"
        THEN SkipClass(line, c + 1, Space)
        ELSE 0

\* /^\d{4}-\d{2}-\d{2}[T ]\d{2}:\d{2}:\d{2}[\d.]*Z?\s*/
MatchIsoTimestamp(line) ==
    LET a == SkipClass(line, 20, Digit \cup {"."})
        b == IF At(line, a) = "Z" THEN a + 1 ELSE a
    IN  IF /\ AllIn(line, 1, 4, Digit) /\ At(line, 5) = "-"
           /\ AllIn(line, 6, 7, Digit) /\ At(line, 8) = "-"
           /\ AllIn(line, 9, 10, Digit) /\ At(line, 11) \in {"T", " "}
           /\ AllIn(line, 12, 13, Digit) /\ At(line, 14) = ":"
           /\ AllIn(line, 15, 16, Digit) /\ At(line, 17) = ":"
           /\ AllIn(line, 18, 19, Digit)
        THEN SkipClass(line, b, Space)
        ELSE 0

\* /^\[Nest\]\s*\d+\s*-\s*[^[]+(?:\[[\w]+\]\s*)?/
\* \s*[^[]+ takes everything up to the next '[' and needs one character;
\* the bracketed context that may follow is optional.
MatchNest(line) ==
    LET a == SkipClass(line, 7, Space)
        b == SkipClass(line, a, Digit)
        c == SkipClass(line, b, Space)
        d == SkipNotClass(line, c + 1, {"["})
        e == SkipClass(line, d + 1, Word)
    IN  IF /\ HasAt(line, 1, "[Nest]")
           /\ b > a
           /\ At(line, c) = "-"
           /\ d > c + 1
        THEN IF At(line, d) = "[" /\ e > d + 1 /\ At(line, e) = "]"
             THEN SkipClass(line, e + 1, Space)
             ELSE d
        ELSE 0

\* /^>\s*/
MatchPrompt(line) ==
    IF At(line, 1) = ">" THEN SkipClass(line, 2, Space) ELSE 0

\* line.replace(re, ''), for an anchored expression whose match ends before end.
Cut(line, end) == IF end = 0 THEN line ELSE From(line, end)

\* The chain of replace calls applied to one line, in the source's order.
CutFlutter(line) == Cut(line, MatchFlutter(line))

CutLogcat(line) == Cut(line, MatchLogcat(line))

CutLaravel(line) == Cut(line, MatchLaravel(line))

CutIsoTimestamp(line) == Cut(line, MatchIsoTimestamp(line))

CutNest(line) == Cut(line, MatchNest(line))

CutPrompt(line) == Cut(line, MatchPrompt(line))

StripLine(line) ==
    CutPrompt(CutNest(CutIsoTimestamp(CutLaravel(CutLogcat(CutFlutter(line))))))

stripLogPrefixes(t) ==
    LET ls == SplitLines(t)
    IN  JoinLines([k \in 1..Len(ls) |-> StripLine(ls[k])])

(***************************************************************************)
(* extractBalancedBlocks.  ScanState is the function's local state at the  *)
(* head of the for loop; ScanStepOf is one iteration of the loop body      *)
(* followed by the loop's i++.                                             *)
(***************************************************************************)
LookBack == 300

ScanStart ==
    [i |-> 0, depth |-> 0, blockStart |-> -1, inString |-> FALSE,
     stringChar |-> "", blocks |-> <<>>]

\* text.substring(from, to) with 0-based from (inclusive) and to (exclusive).
Substring(t, from, to) ==
    IF to <= from THEN "" ELSE SubSeq(t, from + 1, to)

Max(a, b) == IF a >= b THEN a ELSE b

\* The TextBlock pushed when the block opened at s.blockStart closes at s.i.
NewBlock(t, s) ==
    [content       |-> Substring(t, s.blockStart, s.i + 1),
     startIndex    |-> s.blockStart,
     endIndex      |-> s.i,
     precedingText |-> Substring(t, Max(0, s.blockStart - LookBack), s.blockStart)]

\* Inside a quoted string: a backslash skips the next character, the
\* opening quote character closes the string, anything else is skipped.
InStringStepNoEscape(t, s, ch) ==
    IF ch = s.stringChar
    THEN [s EXCEPT !.inString = FALSE, !.i = s.i + 1]
    ELSE [s EXCEPT !.i = s.i + 1]

InStringStep(t, s, ch) ==
    IF ch = "\\" THEN [s EXCEPT !.i = s.i + 2]
    ELSE IF ch = s.stringChar
         THEN [s EXCEPT !.inString = FALSE, !.i = s.i + 1]
         ELSE [s EXCEPT !.i = s.i + 1]

\* ch === '}' outside a string: depth--, emit at depth 0, clamp at 0.
CloseBraceNoClamp(t, s) ==
    LET d == s.depth - 1
    IN  IF d = 0 /\ s.blockStart # -1
        THEN [s EXCEPT !.depth = d, !.blocks = Append(s.blocks, NewBlock(t, s)),
                       !.blockStart = -1, !.i = s.i + 1]
        ELSE [s EXCEPT !.depth = d, !.i = s.i + 1]

CloseBrace(t, s) ==
    LET d == s.depth - 1
        emit == d = 0 /\ s.blockStart # -1
    IN  [s EXCEPT !.depth = IF d < 0 THEN 0 ELSE d,
                  !.blocks = IF emit THEN Append(s.blocks, NewBlock(t, s))
                             ELSE s.blocks,
                  !.blockStart = IF emit THEN -1 ELSE s.blockStart,
                  !.i = s.i + 1]

ScanStepOf(t, s) ==
    LET ch == At(t, s.i + 1)
    IN  IF s.inString THEN InStringStep(t, s, ch)
        ELSE IF ch = "\"" \/ ch = "'"
             THEN [s EXCEPT !.inString = TRUE, !.stringChar = ch, !.i = s.i + 1]
        ELSE IF ch = "{"
             THEN [s EXCEPT !.blockStart = IF s.depth = 0 THEN s.i ELSE s.blockStart,
                            !.depth = s.depth + 1, !.i = s.i + 1]
        ELSE IF ch = "}" THEN CloseBrace(t, s)
        ELSE [s EXCEPT !.i = s.i + 1]

RECURSIVE ScanFrom(_, _)
ScanFrom(t, s) == IF s.i < Len(t) THEN ScanFrom(t, ScanStepOf(t, s)) ELSE s

extractBalancedBlocks(t) == ScanFrom(t, ScanStart).blocks

(***************************************************************************)
(* Scoring of candidate blocks.  The marker expressions all end in $ and   *)
(* are tested on text whose trailing white space is trimmed, so they are   *)
(* matched backwards from the end.  A Back operator takes the length e of  *)
(* the prefix still to match and gives the length left after its own part, *)
(* or -1 when its part does not match.                                     *)
(***************************************************************************)
\* The length of s without the longest run of class C that ends at e.
RECURSIVE SkipBack(_, _, _)
SkipBack(s, e, C) ==
    IF e >= 1 /\ At(s, e) \in C THEN SkipBack(s, e - 1, C) ELSE e

\* String.prototype.trimEnd
TrimEnd(s) == SubSeq(s, 1, SkipBack(s, Len(s), Space))

\* A literal ending at e; ls is lower case (the expressions carry /i).
BackLit(ls, e, lit) ==
    IF e >= Len(lit) /\ SubSeq(ls, e - Len(lit) + 1, e) = lit
    THEN e - Len(lit) ELSE -1

\* An optional character of class C ending at e.
BackOpt(ls, e, C) ==
    IF e >= 1 /\ At(ls, e) \in C THEN e - 1 ELSE e

\* \b between positions e and e + 1.
Boundary(ls, e) ==
    (e >= 1 /\ At(ls, e) \in Word) # (e + 1 <= Len(ls) /\ At(ls, e + 1) \in Word)

\* \s*[:=]\s*$ : the length of what precedes the label's separator, or -1.
BackSeparator(ls) ==
    LET e == SkipBack(ls, Len(ls), Space)
    IN  IF e >= 1 /\ At(ls, e) \in {":", "="}
        THEN SkipBack(ls, e - 1, Space) ELSE -1

\* /\b<word>\s*[:=]\s*$/i
EndsWithLabel(ls, word) ==
    LET a == BackLit(ls, BackSeparator(ls), word)
    IN  a >= 0 /\ Boundary(ls, a)

\* /\b<first>[-_ ]?<second>\s*[:=]\s*$/i
EndsWithLabel2(ls, first, second) ==
    LET a == BackLit(ls, BackSeparator(ls), second)
        b == BackLit(ls, BackOpt(ls, a, {"-", "_", " "}), first)
    IN  a >= 0 /\ b >= 0 /\ Boundary(ls, b)

\* /\b<prefix>body\s*\/\s*data\s*[:=]\s*$/i, prefix "" or request[-_ ]?
EndsWithBodyData(ls, withRequest) ==
    LET a == BackLit(ls, BackSeparator(ls), "data")
        b == IF a < 0 THEN -1 ELSE BackLit(ls, SkipBack(ls, a, Space), "/")
        c == IF b < 0 THEN -1 ELSE BackLit(ls, SkipBack(ls, b, Space), "body")
        d == IF ~withRequest THEN c
             ELSE IF c < 0 THEN -1
             ELSE BackLit(ls, BackOpt(ls, c, {"-", "_", " "}), "request")
    IN  d >= 0 /\ Boundary(ls, d)

\* /\bDATA\s+in\s+\w+\s*$/i
EndsWithDataIn(ls) ==
    LET e == SkipBack(ls, Len(ls), Space)
        a == SkipBack(ls, e, Word)
        b == SkipBack(ls, a, Space)
        c == BackLit(ls, b, "in")
        d == IF c < 0 THEN -1 ELSE SkipBack(ls, c, Space)
        f == BackLit(ls, d, "data")
    IN  a < e /\ b < a /\ c >= 0 /\ d < c /\ f >= 0 /\ Boundary(ls, f)

\* /\b--data(?:-raw|-binary)?\s+['"]?$/i
EndsWithDataFlag(ls) ==
    LET e == BackOpt(ls, Len(ls), {"'", "\""})
        a == SkipBack(ls, e, Space)
        raw == BackLit(ls, a, "-raw")
        bin == BackLit(ls, a, "-binary")
        b == IF raw >= 0 THEN raw ELSE IF bin >= 0 THEN bin ELSE a
        c == BackLit(ls, b, "--data")
    IN  a < e /\ c >= 0 /\ Boundary(ls, c)

\* BODY_MARKERS.some(re => re.test(preceding))
HasBodyMarker(preceding) ==
    LET ls == ToLower(preceding)
    IN  \/ EndsWithLabel(ls, "body")
        \/ EndsWithLabel2(ls, "request", "body")
        \/ EndsWithBodyData(ls, FALSE)
        \/ EndsWithBodyData(ls, TRUE)
        \/ EndsWithLabel(ls, "payload")
        \/ EndsWithLabel(ls, "data")
        \/ EndsWithLabel2(ls, "post", "data")
        \/ EndsWithLabel(ls, "params")
        \/ EndsWithDataIn(ls)
        \/ EndsWithDataFlag(ls)
        \/ EndsWithLabel(ls, "request")

\* HEADER_MARKERS.some(re => re.test(preceding))
HasHeaderMarker(preceding) ==
    LET ls == ToLower(preceding)
    IN  \/ EndsWithLabel(ls, "headers") \/ EndsWithLabel(ls, "header")
        \/ EndsWithLabel2(ls, "request", "headers")
        \/ EndsWithLabel2(ls, "request", "header")
        \/ EndsWithLabel2(ls, "response", "headers")
        \/ EndsWithLabel2(ls, "response", "header")
        \/ EndsWithLabel(ls, "baseoptions.headers")

\* META_MARKERS.some(re => re.test(preceding))
HasMetaMarker(preceding) ==
    LET ls == ToLower(preceding)
    IN  \/ EndsWithLabel(ls, "config")
        \/ EndsWithLabel(ls, "options")
        \/ EndsWithLabel(ls, "response")
        \/ EndsWithLabel(ls, "extra")
        \/ EndsWithLabel2(ls, "query", "parameters")
        \/ EndsWithLabel2(ls, "query", "parameter")

HEADER_KEYS ==
    { "authorization", "content-type", "accept", "user-agent",
      "cache-control", "x-requested-with", "cookie", "set-cookie",
      "host", "connection", "accept-encoding", "accept-language",
      "content-length", "origin", "referer", "x-csrf-token",
      "x-xsrf-token", "x-forwarded-for", "x-forwarded-proto",
      "pragma", "expires", "etag", "if-none-match", "if-modified-since",
      "access-control-allow-origin", "access-control-allow-methods",
      "access-control-allow-headers", "vary", "transfer-encoding" }

META_KEYS ==
    { "statuscode", "statusmessage", "responsetype", "extra",
      "connecttimeout", "receivetimeout", "sendtimeout",
      "followredirects", "maxredirects", "baseurl",
      "validatestatus", "httpclientadapter", "listformat",
      "contenttype", "responseheaders", "isredirect" }

\* /(?:["']?)([\w][\w\-.]*)(?:["']?)\s*:/ tried at position p: the position
\* of the captured key and the position after the match, or <<>>.
KeyMatchAt(s, p) ==
    LET k == IF At(s, p) \in {"\"", "'"} /\ At(s, p + 1) \in Word THEN p + 1 ELSE p
        a == SkipClass(s, k + 1, Word \cup {"-", "."})
        b == IF At(s, a) \in {"\"", "'"} THEN a + 1 ELSE a
        c == SkipClass(s, b, Space)
    IN  IF At(s, k) \in Word /\ At(s, c) = ":" THEN <<k, a, c + 1>> ELSE <<>>

\* The exec loop of extractRawKeys from position p (lastIndex + 1).
RECURSIVE RawKeysFrom(_, _)
RawKeysFrom(s, p) ==
    IF p > Len(s) THEN <<>>
    ELSE LET m == KeyMatchAt(s, p)
         IN  IF m = <<>> THEN RawKeysFrom(s, p + 1)
             ELSE <<ToLower(SubSeq(s, m[1], m[2] - 1))>> \o RawKeysFrom(s, m[3])

extractRawKeys(block) == RawKeysFrom(block, 1)

\* keys.filter(k => set.has(k)).length
CountIn(keys, set) == Cardinality({k \in 1..Len(keys) : keys[k] \in set})

HeaderCount(content) == CountIn(extractRawKeys(content), HEADER_KEYS)

\* The marker part of the score, from the text before the block.
MarkerScore(preceding) ==
      (IF HasBodyMarker(preceding) THEN 50 ELSE 0)
    - (IF HasHeaderMarker(preceding) THEN 50 ELSE 0)
    - (IF HasMetaMarker(preceding) THEN 30 ELSE 0)

\* The content part of the score, from the key counts:
\* headerCount / total > 0.5  and  metaCount / total > 0.3
ContentScore(headerCount, metaCount, total) ==
      (IF 2 * headerCount > total THEN -40
       ELSE IF headerCount = 0 /\ metaCount = 0 THEN 10 ELSE 0)
    + (IF 10 * metaCount > 3 * total THEN -30 ELSE 0)
    + (IF total >= 3 THEN 5 ELSE 0)

\* The score of a block with the given keys; an empty block scores -100
\* whatever precedes it.
KeysScore(keys, markers) ==
    IF Len(keys) = 0 THEN -100
    ELSE markers + ContentScore(CountIn(keys, HEADER_KEYS),
                                CountIn(keys, META_KEYS), Len(keys))

scoreBlock(block) ==
    [block |-> block,
     score |-> KeysScore(extractRawKeys(block.content),
                         MarkerScore(TrimEnd(stripLogPrefixes(block.precedingText))))]

(***************************************************************************)
(* extractBodyFromKeyValue.  A pattern of LOGFMT_BODY_PATTERNS is a key    *)
(* word (first, then an optional '-' or '_', then second; first is "" for  *)
(* a one-word key) and the form of the value: "\"" or "'" for a quoted     *)
(* {...}, "" for a bare {...} that runs to the last '}' of the line.       *)
(***************************************************************************)
LOGFMT_BODY_PATTERNS ==
    << [first |-> "request", second |-> "body", form |-> "\""],
       [first |-> "request", second |-> "body", form |-> "'"],
       [first |-> "request", second |-> "body", form |-> ""],
       [first |-> "", second |-> "body", form |-> "\""],
       [first |-> "", second |-> "body", form |-> "'"],
       [first |-> "", second |-> "body", form |-> ""],
       [first |-> "", second |-> "payload", form |-> "\""],
       [first |-> "", second |-> "payload", form |-> "'"],
       [first |-> "", second |-> "data", form |-> "\""],
       [first |-> "", second |-> "data", form |-> "'"],
       [first |-> "post", second |-> "data", form |-> "\""],
       [first |-> "post", second |-> "data", form |-> "'"] >>

\* The position after the key word of pattern pat at p, or 0.
KeywordEnd(ls, p, pat) ==
    IF pat.first = ""
    THEN IF HasAt(ls, p, pat.second) THEN p + Len(pat.second) ELSE 0
    ELSE LET a == p + Len(pat.first)
             b == IF At(ls, a) \in {"-", "_"} THEN a + 1 ELSE a
         IN  IF HasAt(ls, p, pat.first) /\ HasAt(ls, b, pat.second)
             THEN b + Len(pat.second) ELSE 0

\* "(\{[^"]*\})" or '(\{[^']*\})' at q: the capture's first and last position.
QuotedBraces(s, q, quote) ==
    LET r == SkipNotClass(s, q + 2, {quote})
    IN  IF /\ At(s, q) = quote /\ At(s, q + 1) = "{"
           /\ At(s, r) = quote /\ At(s, r - 1) = "}" /\ r - 1 >= q + 2
        THEN <<q + 1, r - 1>> ELSE <<>>

\* The last position in from..to that holds a character of class C, or from - 1.
RECURSIVE LastOf(_, _, _, _)
LastOf(s, from, to, C) ==
    IF to < from THEN from - 1
    ELSE IF At(s, to) \in C THEN to ELSE LastOf(s, from, to - 1, C)

\* (\{[^\n]*\}) at q.
BareBraces(s, q) ==
    LET eol == SkipNotClass(s, q + 1, {"\n"})
        r == LastOf(s, q + 1, eol - 1, {"}"})
    IN  IF At(s, q) = "{" /\ r >= q + 1 THEN <<q, r>> ELSE <<>>

\* Pattern pat tried at position p of s (ls is s in lower case).
LogfmtMatchAt(s, ls, p, pat) ==
    LET a == KeywordEnd(ls, p, pat)
        b == SkipClass(s, a, Space)
        c == SkipClass(s, b + 1, Space)
    IN  IF a = 0 \/ ~Boundary(ls, p - 1) \/ At(s, b) # "=" THEN <<>>
        ELSE IF pat.form = "" THEN BareBraces(s, c)
        ELSE QuotedBraces(s, c, pat.form)

\* text.match(pattern): the capture of the leftmost match, or <<>>.
LogfmtMatch(s, ls, pat) ==
    LET hits == {p \in 1..Len(s) : LogfmtMatchAt(s, ls, p, pat) # <<>>}
    IN  IF hits = {} THEN <<>>
        ELSE LET p == CHOOSE x \in hits : \A y \in hits : x <= y
                 m == LogfmtMatchAt(s, ls, p, pat)
             IN  <<SubSeq(s, m[1], m[2])>>

RECURSIVE FirstLogfmt(_, _, _)
FirstLogfmt(s, ls, k) ==
    IF k > Len(LOGFMT_BODY_PATTERNS) THEN Absent
    ELSE LET m == LogfmtMatch(s, ls, LOGFMT_BODY_PATTERNS[k])
         IN  IF m # <<>> THEN m ELSE FirstLogfmt(s, ls, k + 1)

extractBodyFromKeyValue(t) == FirstLogfmt(t, ToLower(t), 1)

(***************************************************************************)
(* extractBody: the scored selection among two or more blocks.             *)
(***************************************************************************)
\* x put into a list sorted by descending score, behind its equals.
RECURSIVE InsertByScore(_, _)
InsertByScore(sorted, x) ==
    IF sorted = <<>> THEN <<x>>
    ELSE IF Head(sorted).score >= x.score
         THEN <<Head(sorted)>> \o InsertByScore(Tail(sorted), x)
         ELSE <<x>> \o sorted

\* blocks.map(b => scoreBlock(b)).sort((a, b) => b.score - a.score); the sort
\* is stable.
RECURSIVE ScoreAndSort(_)
ScoreAndSort(bs) ==
    IF bs = <<>> THEN <<>>
    ELSE InsertByScore(ScoreAndSort(SubSeq(bs, 1, Len(bs) - 1)),
                       scoreBlock(bs[Len(bs)]))

\* scored.filter(s => s.score === topScore)
RECURSIVE FilterScore(_, _)
FilterScore(ss, top) ==
    IF ss = <<>> THEN <<>>
    ELSE (IF Head(ss).score = top THEN <<Head(ss)>> ELSE <<>>)
         \o FilterScore(Tail(ss), top)

\* The callback of tied.reduce: curr replaces prev when it has fewer header keys.
FewerHeadersOrEqual(prev, curr) ==
    IF HeaderCount(curr.block.content) <= HeaderCount(prev.block.content)
    THEN curr ELSE prev

FewerHeaders(prev, curr) ==
    IF HeaderCount(curr.block.content) < HeaderCount(prev.block.content)
    THEN curr ELSE prev

\* tied.reduce(callback), without an initial value.
RECURSIVE Reduce(_, _)
Reduce(acc, rest) ==
    IF rest = <<>> THEN acc ELSE Reduce(FewerHeaders(acc, Head(rest)), Tail(rest))

ReduceTied(tied) == Reduce(Head(tied), Tail(tied))

PickScored(ss) ==
    IF ss[1].score > ss[2].score THEN ss[1].block.content
    ELSE ReduceTied(FilterScore(ss, ss[1].score)).block.content

\* The scored list and the result for two or more blocks.
Scored(ss) == [scored |-> ss, result |-> Some(PickScored(ss))]

\* Step 2 of extractBody on the blocks found: the scored list and the result.
SelectBlockScoredOnly(bs) ==
    IF Len(bs) = 0 THEN [scored |-> <<>>, result |-> Absent]
    ELSE IF Len(bs) = 1
         THEN [scored |-> <<>>,
               result |-> IF scoreBlock(bs[1]).score >= 0
                          THEN Some(bs[1].content) ELSE Absent]
    ELSE Scored(ScoreAndSort(bs))

SelectBlock(bs) ==
    IF Len(bs) = 0 THEN [scored |-> <<>>, result |-> Absent]
    ELSE IF Len(bs) = 1 THEN [scored |-> <<>>, result |-> Some(bs[1].content)]
    ELSE Scored(ScoreAndSort(bs))

\* kvBody, if any, else the selection among the balanced blocks.
BodyOr(kvBody, t) ==
    IF kvBody # Absent THEN kvBody
    ELSE SelectBlock(extractBalancedBlocks(t)).result

extractBody(t) == BodyOr(extractBodyFromKeyValue(t), t)

(***************************************************************************)
(* Input texts are concatenations of a few fragments.                      *)
(***************************************************************************)
RECURSIVE Concat(_)
Concat(fs) == IF Len(fs) = 0 THEN "" ELSE Head(fs) \o Concat(Tail(fs))

SeqsUpTo(S, n) == UNION {[1..k -> S] : k \in 0..n}

TextsOf(F, n) == {Concat(fs) : fs \in SeqsUpTo(F, n)}

MaxStripFrags == 3

StripFragments ==
    { "flutter: ", "I/flutter ( 1234): ", "[2024-01-15 10:23:45] local.INFO: ",
      "2024-01-15T10:23:45.123Z ", "[Nest] 38453  - 01/15/2024, 10:23:45 AM   LOG [Ctx] ",
      "> ", "{a: 1}", "\n" }

(***************************************************************************)
(* Specification of the prefix stripper applied once and twice.            *)
(***************************************************************************)
ScanIdle ==
    /\ i = 0 /\ depth = 0 /\ blockStart = -1
    /\ inString = FALSE /\ stringChar = "" /\ blocks = <<>>

StripIdle == stripped = "" /\ restripped = ""

BodyIdle == scored = <<>> /\ rawBody = Absent

UnwrapIdle == parsed = Absent /\ unwrapped = Absent

ConvIdle ==
    /\ url = Absent /\ method = Absent /\ token = Absent
    /\ customHeaders = <<>> /\ bodyJson = Absent /\ curl = ""
    /\ shown = <<>> /\ emitted = <<>>

InitStrip ==
    /\ pc = "strip"
    /\ text \in TextsOf(StripFragments, MaxStripFrags)
    /\ StripIdle /\ ScanIdle /\ BodyIdle /\ UnwrapIdle /\ ConvIdle

StripOnce ==
    /\ pc = "strip"
    /\ stripped' = stripLogPrefixes(text)
    /\ pc' = "restrip"
    /\ UNCHANGED <<text, restripped, scanVars, bodyVars, unwrapVars, convVars>>

StripTwice ==
    /\ pc = "restrip"
    /\ restripped' = stripLogPrefixes(stripped)
    /\ pc' = "stripDone"
    /\ UNCHANGED <<text, stripped, scanVars, bodyVars, unwrapVars, convVars>>

NextStrip == StripOnce \/ StripTwice

SpecStrip == InitStrip /\ [][NextStrip]_vars

\* C1: stripLogPrefixes is idempotent: stripping the stripped text again
\* gives the stripped text, for every input text.
C1_StripIdempotent == pc = "stripDone" => restripped = stripped

\* Sanity: the single-prefix lines of the source's own comment strip clean.
StripExamples ==
    /\ stripLogPrefixes("flutter: {a: 1}") = "{a: 1}"
    /\ stripLogPrefixes("I/flutter ( 1234): {a: 1}") = "{a: 1}"
    /\ stripLogPrefixes("[2024-01-15 10:23:45] local.INFO: {a: 1}") = "{a: 1}"
    /\ stripLogPrefixes("2024-01-15T10:23:45.123Z {a: 1}") = "{a: 1}"
    /\ stripLogPrefixes("[Nest] 38453  - 01/15/2024, 10:23:45 AM   LOG [Ctx] {a: 1}") = "{a: 1}"
    /\ stripLogPrefixes("> {a: 1}\nFlutter:x") = "{a: 1}\nx"

(***************************************************************************)
(* Specification of the block scanner, one loop iteration per step.        *)
(***************************************************************************)
MaxScanLen == 5

ScanAlphabet == {"{", "}", "\"", "'", "\\", "a"}

ScanState ==
    [i |-> i, depth |-> depth, blockStart |-> blockStart, inString |-> inString,
     stringChar |-> stringChar, blocks |-> blocks]

InitScan ==
    /\ pc = "scan"
    /\ text \in TextsOf(ScanAlphabet, MaxScanLen)
    /\ StripIdle /\ ScanIdle /\ BodyIdle /\ UnwrapIdle /\ ConvIdle

\* One iteration of the for loop: its condition holds, the body runs, i++.
ScanChar ==
    /\ pc = "scan"
    /\ i < Len(text)
    /\ LET n == ScanStepOf(text, ScanState)
       IN  /\ i' = n.i
           /\ depth' = n.depth
           /\ blockStart' = n.blockStart
           /\ inString' = n.inString
           /\ stringChar' = n.stringChar
           /\ blocks' = n.blocks
    /\ UNCHANGED <<pc, text, stripVars, bodyVars, unwrapVars, convVars>>

\* The loop condition fails: the function returns blocks.
ScanReturn ==
    /\ pc = "scan"
    /\ i >= Len(text)
    /\ pc' = "scanDone"
    /\ UNCHANGED <<text, stripVars, scanVars, bodyVars, unwrapVars, convVars>>

NextScan == ScanChar \/ ScanReturn

SpecScan == InitScan /\ [][NextScan]_vars

\* The number of occurrences of character c in s outside quoted regions.  A
\* quoted region runs from a quote character to the next occurrence of the
\* same quote character; inside it a backslash takes the next character
\* with it.  q is the quote of the region position p lies in, or "".
RECURSIVE CountOutside(_, _, _, _)
CountOutside(s, c, p, q) ==
    IF p > Len(s) THEN 0
    ELSE LET ch == At(s, p)
         IN  IF q # ""
             THEN IF ch = "\\" THEN CountOutside(s, c, p + 2, q)
                  ELSE IF ch = q THEN CountOutside(s, c, p + 1, "")
                  ELSE CountOutside(s, c, p + 1, q)
             ELSE IF ch \in {"\"", "'"} THEN CountOutside(s, c, p + 1, ch)
             ELSE (IF ch = c THEN 1 ELSE 0) + CountOutside(s, c, p + 1, "")

RECURSIVE CountChar(_, _)
CountChar(s, c) ==
    IF s = "" THEN 0 ELSE (IF Head(s) = c THEN 1 ELSE 0) + CountChar(Tail(s), c)

WellFormedBlock(t, b) ==
    /\ b.content = Substring(t, b.startIndex, b.endIndex + 1)
    /\ At(b.content, 1) = "{"
    /\ At(b.content, Len(b.content)) = "}"
    /\ 0 <= b.startIndex
    /\ b.startIndex < b.endIndex
    /\ b.endIndex < Len(t)
    /\ CountOutside(b.content, "{", 1, "") = CountOutside(b.content, "}", 1, "")

\* C8: every TextBlock emitted by extractBalancedBlocks is well formed:
\* content is text[startIndex..endIndex], starts with '{', ends with '}',
\* startIndex < endIndex, and '{' and '}' occur equally often in content
\* outside quoted regions.
C8_BlocksWellFormed ==
    \A k \in 1..Len(blocks) : WellFormedBlock(text, blocks[k])

\* A block that holds a quoted '}' has been emitted.
C8_Witness ==
    /\ pc = "scanDone"
    /\ \E k \in 1..Len(blocks) :
          CountChar(blocks[k].content, "}") > CountOutside(blocks[k].content, "}", 1, "")

\* text with the character at 0-based index k replaced by c.
ReplaceAt(t, k, c) == Substring(t, 0, k) \o c \o Substring(t, k + 1, Len(t))

\* The scanner is about to read an unmatched '}' at depth 0 outside a string.
AtUnmatchedClose ==
    /\ pc = "scan"
    /\ i < Len(text)
    /\ ~inString
    /\ depth = 0
    /\ At(text, i + 1) = "}"

ContentAndIndices(bs) ==
    [k \in 1..Len(bs) |-> <<bs[k].content, bs[k].startIndex, bs[k].endIndex>>]

C9_Safe ==
    /\ depth >= 0
    /\ i <= Len(text) + 1
    /\ AtUnmatchedClose =>
          /\ ContentAndIndices(extractBalancedBlocks(text))
                = ContentAndIndices(extractBalancedBlocks(ReplaceAt(text, i, "a")))
          /\ LET n == ScanStepOf(text, ScanState)
             IN  n = [ScanState EXCEPT !.i = i + 1]

C9_Progress == pc = "scan" => (i' > i \/ pc' = "scanDone")

\* C9: the brace depth is never negative at the start of a character step,
\* every step of the scan moves forward in the text (so the scan completes),
\* and an unmatched '}' at depth 0 outside a string changes nothing: the
\* blocks found are those of the text with that character replaced by a
\* plain one, with the same content and indices.
C9_MalformedBraceResilience == [](C9_Safe) /\ [][C9_Progress]_vars

\* An unmatched '}' is met between two well-formed blocks, both emitted.
C9_Witness ==
    /\ AtUnmatchedClose
    /\ Len(blocks) = 1
    /\ Len(extractBalancedBlocks(text)) = 2

(***************************************************************************)
(* Specification of extractBody, one step per stage.                       *)
(***************************************************************************)
MaxBodyFrags == 3

BodyFragments ==
    { "body=\"{a:1}\" ", "payload='{b:1}' ", "request_body={c:1} } ",
      "{host:1,vary:1,etag:1,a:1,b:1,c:1}", "{extra:1,a:1,b:1,c:1}",
      "{host:1,vary:1,extra:1}",
      "{a:1}", "{b:2}", "{}", "headers: ", "data: " }

InitBody ==
    /\ pc = "body"
    /\ text \in TextsOf(BodyFragments, MaxBodyFrags)
    /\ StripIdle /\ ScanIdle /\ BodyIdle /\ UnwrapIdle /\ ConvIdle

\* 1. a logfmt field is found: its value is returned.
BodyFromKeyValue ==
    /\ pc = "body"
    /\ extractBodyFromKeyValue(text) # Absent
    /\ rawBody' = extractBodyFromKeyValue(text)
    /\ pc' = "bodyDone"
    /\ UNCHANGED <<text, stripVars, scanVars, scored, unwrapVars, convVars>>

\* 2. no logfmt field: the balanced blocks are extracted.
BodyScanBlocks ==
    /\ pc = "body"
    /\ extractBodyFromKeyValue(text) = Absent
    /\ blocks' = extractBalancedBlocks(text)
    /\ pc' = "bodyPick"
    /\ UNCHANGED <<text, stripVars, i, depth, blockStart, inString, stringChar,
                   bodyVars, unwrapVars, convVars>>

BodyNoBlock ==
    /\ pc = "bodyPick"
    /\ Len(blocks) = 0
    /\ rawBody' = SelectBlock(blocks).result
    /\ pc' = "bodyDone"
    /\ UNCHANGED <<text, stripVars, scanVars, scored, unwrapVars, convVars>>

BodySingleBlock ==
    /\ pc = "bodyPick"
    /\ Len(blocks) = 1
    /\ rawBody' = SelectBlock(blocks).result
    /\ pc' = "bodyDone"
    /\ UNCHANGED <<text, stripVars, scanVars, scored, unwrapVars, convVars>>

BodyScored ==
    /\ pc = "bodyPick"
    /\ Len(blocks) >= 2
    /\ scored' = SelectBlock(blocks).scored
    /\ rawBody' = SelectBlock(blocks).result
    /\ pc' = "bodyDone"
    /\ UNCHANGED <<text, stripVars, scanVars, unwrapVars, convVars>>

NextBody ==
    BodyFromKeyValue \/ BodyScanBlocks \/ BodyNoBlock \/ BodySingleBlock \/ BodyScored

SpecBody == InitBody /\ [][NextBody]_vars

\* The text has exactly one top-level block.
OneBlock == Len(extractBalancedBlocks(text)) = 1

TheBlock == extractBalancedBlocks(text)[1]

\* C6 as stated: whenever the text has exactly one top-level block,
\* extractBody returns that block's content, whatever else the text holds.
C6_SingleBlockAlways ==
    (pc = "bodyDone" /\ OneBlock) => rawBody = Some(TheBlock.content)

\* C6, amended: whenever no logfmt body pattern matches the text and the
\* text has exactly one top-level block, extractBody returns that block's
\* content, whatever its score.
C6_SingleBlockShortcut ==
    (pc = "bodyDone" /\ OneBlock /\ extractBodyFromKeyValue(text) = Absent)
        => rawBody = Some(TheBlock.content)

\* The only block follows a headers label, scores below 0 and is returned.
C6_Witness ==
    /\ pc = "bodyDone" /\ OneBlock /\ extractBodyFromKeyValue(text) = Absent
    /\ scoreBlock(TheBlock).score < 0
    /\ HasHeaderMarker(TrimEnd(TheBlock.precedingText))
    /\ rawBody = Some(TheBlock.content)

\* The blocks that share the top score of the sorted list.
TopBlocks == {k \in 1..Len(scored) : scored[k].score = scored[1].score}

\* Block k has the fewest header keys of the top blocks and is the first
\* such block in the text.
WinsTie(k) ==
    /\ k \in TopBlocks
    /\ \A j \in TopBlocks :
          LET hk == HeaderCount(scored[k].block.content)
              hj == HeaderCount(scored[j].block.content)
          IN  hk < hj \/ (hk = hj /\ scored[k].block.startIndex <= scored[j].block.startIndex)

JNull == <<"null", "">>

JBool(b) == <<"bool", b>>

JNum(n) == <<"num", n>>

JStr(s) == <<"str", s>>

JArr(vs) == <<"arr", vs>>

JObj(es) == <<"obj", es>>

\* Object.keys(obj)
ObjectKeys(obj) == [j \in 1..Len(obj[2]) |-> obj[2][j][1]]

\* obj[key], for a key the object has
Get(obj, key) ==
    obj[2][CHOOSE j \in 1..Len(obj[2]) : obj[2][j][1] = key][2]

\* typeof v === 'object' && v !== null
IsNonNullObject(v) == v[1] \in {"obj", "arr"}

(***************************************************************************)
(* unwrapBodyIfNeeded                                                      *)
(***************************************************************************)
CONFIG_INDICATORS ==
    <<"method", "url", "baseurl", "headers", "timeout", "responsetype">>

BODY_KEYS == <<"body", "data", "payload", "requestbody", "request_body">>

\* keys.map(k => k.toLowerCase())
LowerKeys(keys) == [j \in 1..Len(keys) |-> ToLower(keys[j])]

\* lowerKeys.includes(ci)
Includes(seq, x) == \E j \in 1..Len(seq) : seq[j] = x

hasConfigShapeOne(lowerKeys) ==
    Cardinality({c \in 1..Len(CONFIG_INDICATORS) :
                    Includes(lowerKeys, CONFIG_INDICATORS[c])}) >= 1

\* CONFIG_INDICATORS.filter(ci => lowerKeys.includes(ci)).length >= 2
hasConfigShape(lowerKeys) ==
    Cardinality({c \in 1..Len(CONFIG_INDICATORS) :
                    Includes(lowerKeys, CONFIG_INDICATORS[c])}) >= 2

\* keys.find(k => k.toLowerCase() === bk): the first such key, <<>> if none.
RECURSIVE FindKey(_, _, _)
FindKey(keys, bk, j) ==
    IF j > Len(keys) THEN Absent
    ELSE IF ToLower(keys[j]) = bk THEN Some(keys[j])
    ELSE FindKey(keys, bk, j + 1)

\* One round of the loop over BODY_KEYS, for the key found.
NestedAt(obj, realKey) ==
    IF realKey # Absent /\ realKey[1] # "" /\ IsNonNullObject(Get(obj, realKey[1]))
    THEN Some(Get(obj, realKey[1])) ELSE Absent

\* The loop over BODY_KEYS from the n-th on; parsed itself when it ends.
RECURSIVE PullBody(_, _)
PullBody(obj, n) ==
    IF n > Len(BODY_KEYS) THEN obj
    ELSE IF NestedAt(obj, FindKey(ObjectKeys(obj), BODY_KEYS[n], 1)) # Absent
         THEN NestedAt(obj, FindKey(ObjectKeys(obj), BODY_KEYS[n], 1))[1]
    ELSE PullBody(obj, n + 1)

unwrapBodyIfNeeded(p) ==
    IF p[1] # "obj" THEN p
    ELSE IF ~hasConfigShape(LowerKeys(ObjectKeys(p))) THEN p
    ELSE PullBody(p, 1)

(***************************************************************************)
(* Specification of unwrapBodyIfNeeded on parsed values: arrays,           *)
(* primitives, null, and objects of up to MaxObjKeys entries.              *)
(***************************************************************************)
MaxObjKeys == 4

\* The keys of the objects tried, in the two insertion orders tried: the
\* order matters between keys that differ in letter case only.
KeyOrders ==
    { <<"method", "url", "URL", "headers", "data", "Body", "body">>,
      <<"body", "Body", "data", "headers", "URL", "url", "method">> }

\* The values tried under a key: a nested body may be a string, null, an
\* array or an object (which names the key it sits under).
ValuesFor(key) ==
    IF Includes(BODY_KEYS, ToLower(key))
    THEN {JStr("s"), JNull, JArr(<<JNum("1")>>), JObj(<< <<"from", JStr(key)>> >>)}
    ELSE {JStr("v")}

KeySet(es) == {es[j][1] : j \in 1..Len(es)}

\* The entry lists of at most n entries with keys order[j], order[j+1], ...
RECURSIVE EntriesFrom(_, _, _)
EntriesFrom(order, j, n) ==
    IF j > Len(order) \/ n = 0 THEN {<<>>}
    ELSE EntriesFrom(order, j + 1, n)
         \cup { <<<<order[j], v>>>> \o es :
                   v \in ValuesFor(order[j]), es \in EntriesFrom(order, j + 1, n - 1) }

ParsedValues ==
    {JNull, JBool(TRUE), JNum("1"), JStr("s"), JArr(<<>>),
     JArr(<<JObj(<< <<"method", JStr("v")>>, <<"url", JStr("v")>>,
                    <<"data", JObj(<<>>)>> >>)>>)}
    \cup UNION {{JObj(es) : es \in EntriesFrom(order, 1, MaxObjKeys)} : order \in KeyOrders}

InitUnwrap ==
    /\ pc = "unwrap"
    /\ parsed \in {Some(v) : v \in ParsedValues}
    /\ unwrapped = Absent
    /\ text = ""
    /\ StripIdle /\ ScanIdle /\ BodyIdle /\ ConvIdle

Unwrap ==
    /\ pc = "unwrap"
    /\ unwrapped' = Some(unwrapBodyIfNeeded(parsed[1]))
    /\ pc' = "unwrapDone"
    /\ UNCHANGED <<text, stripVars, scanVars, bodyVars, parsed, convVars>>

NextUnwrap == Unwrap

SpecUnwrap == InitUnwrap /\ [][NextUnwrap]_vars

\* The number of the six indicator keys that parsed has, in any letter case.
IndicatorsOf(p) ==
    Cardinality({ci \in {"method", "url", "baseurl", "headers", "timeout",
                         "responsetype"} :
                    \E k \in KeySet(p[2]) : ToLower(k) = ci})

\* parsed is an object whose keys are method, url, headers and data, and its
\* data is an object.
IsConfigWithData(p) ==
    /\ p[1] = "obj"
    /\ KeySet(p[2]) = {"method", "url", "headers", "data"}
    /\ Get(p, "data")[1] = "obj"

\* C10: unwrapBodyIfNeeded returns its argument unchanged when it is an
\* array, a primitive or null, or an object with fewer than 2 of the
\* indicator keys (in any letter case); for an object with the keys method,
\* url, headers and data whose data is an object it returns that object.
C10_UnwrapGuard ==
    pc = "unwrapDone" =>
        /\ (parsed[1][1] # "obj" \/ IndicatorsOf(parsed[1]) < 2)
              => unwrapped = parsed
        /\ IsConfigWithData(parsed[1])
              => unwrapped = Some(Get(parsed[1], "data"))

\* An object with method, url, headers and data has been unwrapped to its
\* data object.
C10_Witness ==
    /\ pc = "unwrapDone"
    /\ IsConfigWithData(parsed[1])
    /\ unwrapped = Some(JObj(<< <<"from", JStr("data")>> >>))

\* An object with one indicator (in two letter cases) and a nested data
\* object comes back unchanged.
C10_WitnessGuard ==
    /\ pc = "unwrapDone"
    /\ parsed[1][1] = "obj"
    /\ KeySet(parsed[1][2]) = {"url", "URL", "data"}
    /\ Get(parsed[1], "data")[1] = "obj"
    /\ unwrapped = parsed

\* The values that p holds under a key equal to name in any letter case and
\* that are non-null objects.
BodyCandidates(p, name) ==
    {p[2][j][2] : j \in {k \in 1..Len(p[2]) :
                            ToLower(p[2][k][1]) = name /\ p[2][k][2][1] \in {"obj", "arr"}}}

\* The places in the fixed list of the names under which p holds a non-null
\* object.
BodyNamePlaces(p) ==
    {n \in 1..5 :
        BodyCandidates(p, <<"body", "data", "payload", "requestbody",
                            "request_body">>[n]) # {}}

\* C11: for an object with at least 2 indicator keys, unwrapBodyIfNeeded
\* returns the value of the first name of the list body, data, payload,
\* requestbody, request_body for which the object has a key equal to it in
\* any letter case whose value is a non-null object, and the object itself
\* only when there is no such name; also when several keys differ in letter
\* case only.
C11_FirstListedBody ==
    (pc = "unwrapDone" /\ parsed[1][1] = "obj" /\ IndicatorsOf(parsed[1]) >= 2) =>
        IF BodyNamePlaces(parsed[1]) = {}
        THEN unwrapped = parsed
        ELSE unwrapped[1] \in
                BodyCandidates(parsed[1],
                    <<"body", "data", "payload", "requestbody", "request_body">>
                        [CHOOSE n \in BodyNamePlaces(parsed[1]) :
                            \A m \in BodyNamePlaces(parsed[1]) : n <= m])

\* C11 of the objects no two keys of which differ in letter case only.
FirstListedBodyOfDistinctKeys ==
    (/\ pc = "unwrapDone"
     /\ parsed[1][1] = "obj"
     /\ \A j, k \in 1..Len(parsed[1][2]) :
           ToLower(parsed[1][2][j][1]) = ToLower(parsed[1][2][k][1]) => j = k)
    => C11_FirstListedBody

(***************************************************************************)
(* extractUrl.  A match is the pair <<from, to>> of the positions of the   *)
(* captured text, <<>> when the expression does not match; ls is the text  *)
(* in lower case, for the expressions that carry /i.                       *)
(***************************************************************************)
\* word1\s+word2 at p: the position after it, or 0.
TwoWordsEnd(ls, p, w1, w2) ==
    IF /\ HasAt(ls, p, w1)
       /\ At(ls, p + Len(w1)) \in Space
       /\ HasAt(ls, SkipClass(ls, p + Len(w1), Space), w2)
    THEN SkipClass(ls, p + Len(w1), Space) + Len(w2)
    ELSE 0

\* (?:FULL\s+URL|REQUEST\s+URL|ENDPOINT) at p: the position after it, or 0.
UrlLabelEnd(ls, p) ==
    IF TwoWordsEnd(ls, p, "full", "url") # 0 THEN TwoWordsEnd(ls, p, "full", "url")
    ELSE IF TwoWordsEnd(ls, p, "request", "url") # 0
         THEN TwoWordsEnd(ls, p, "request", "url")
    ELSE IF HasAt(ls, p, "endpoint") THEN p + 8 ELSE 0

\* BASE\s+URL at p: the position after it, or 0.
BaseLabelEnd(ls, p) == TwoWordsEnd(ls, p, "base", "url")

\* https?:\/\/ at q: the position after it, or 0.
SchemeEnd(ls, q) ==
    IF HasAt(ls, q, "https://") THEN q + 8
    ELSE IF HasAt(ls, q, "http://") THEN q + 7 ELSE 0

\* (https?:\/\/\S+) at q
UrlAt(s, ls, q) ==
    IF SchemeEnd(ls, q) # 0 /\ SkipNotClass(s, SchemeEnd(ls, q), Space) > SchemeEnd(ls, q)
    THEN <<q, SkipNotClass(s, SchemeEnd(ls, q), Space) - 1>>
    ELSE <<>>

\* \s*:\s*(https?:\/\/\S+) from l, the position after a label (0: no label).
ColonUrlAt(s, ls, l) ==
    IF l # 0 /\ At(s, SkipClass(s, l, Space)) = ":"
    THEN UrlAt(s, ls, SkipClass(s, SkipClass(s, l, Space) + 1, Space))
    ELSE <<>>

\* /\b(?:FULL\s+URL|REQUEST\s+URL|ENDPOINT)\s*:\s*(https?:\/\/\S+)/i at p
LabeledUrlAt(s, ls, p) ==
    IF Boundary(ls, p - 1) THEN ColonUrlAt(s, ls, UrlLabelEnd(ls, p)) ELSE <<>>

\* /\bBASE\s+URL\s*:\s*(https?:\/\/\S+)/i at p
BaseUrlAt(s, ls, p) ==
    IF Boundary(ls, p - 1) THEN ColonUrlAt(s, ls, BaseLabelEnd(ls, p)) ELSE <<>>

\* /\bPATH\s*:\s*(\/\S*)/i at p
PathLabelAt(s, ls, p) ==
    LET c == SkipClass(s, p + 4, Space)
        q == SkipClass(s, c + 1, Space)
    IN  IF Boundary(ls, p - 1) /\ HasAt(ls, p, "path") /\ At(s, c) = ":" /\ At(s, q) = "/"
        THEN <<q, SkipNotClass(s, q, Space) - 1>>
        ELSE <<>>

\* [a-zA-Z0-9\-._~:/?#\[\]@!$&'()*+,;=%]
UrlChars ==
    Upper \cup Lower \cup Digit \cup CharsOf("-._~:/?#[]@!$&'()*+,;=%")

\* /https?:\/\/[a-zA-Z0-9\-._~:/?#\[\]@!$&'()*+,;=%]+/ at p (no /i)
RawUrlAt(s, p) ==
    IF SchemeEnd(s, p) # 0 /\ SkipClass(s, SchemeEnd(s, p), UrlChars) > SchemeEnd(s, p)
    THEN <<p, SkipClass(s, SchemeEnd(s, p), UrlChars) - 1>>
    ELSE <<>>

METHODS == <<"get", "post", "put", "patch", "delete", "head", "options">>

\* (GET|POST|PUT|PATCH|DELETE|HEAD|OPTIONS) at p: its number in METHODS, or 0.
\* No method is a prefix of another, so at most one matches.
MethodAt(ls, p) ==
    IF \E m \in 1..Len(METHODS) : HasAt(ls, p, METHODS[m])
    THEN CHOOSE m \in 1..Len(METHODS) : HasAt(ls, p, METHODS[m])
    ELSE 0

\* \s+(\/\S+)\s+HTTP from e, the position after a method (0: no method).
RequestPathAt(s, ls, e) ==
    LET q == SkipClass(s, e, Space)
        r == SkipNotClass(s, q, Space)
        h == SkipClass(s, r, Space)
    IN  IF e # 0 /\ q > e /\ At(s, q) = "/" /\ r > q + 1 /\ h > r /\ HasAt(ls, h, "http")
        THEN <<q, r - 1>>
        ELSE <<>>

\* The position after the method at p, or 0.
MethodEnd(ls, p) ==
    IF MethodAt(ls, p) = 0 THEN 0 ELSE p + Len(METHODS[MethodAt(ls, p)])

\* /\b(?:GET|POST|PUT|PATCH|DELETE|HEAD|OPTIONS)\s+(\/\S+)\s+HTTP/i at p
RequestLineAt(s, ls, p) ==
    IF Boundary(ls, p - 1) THEN RequestPathAt(s, ls, MethodEnd(ls, p)) ELSE <<>>

\* (?:host|server_name|server) at p: the position after it, or 0.  Where
\* server_name matches and the rest fails, server cannot succeed either,
\* for '_' is neither white space nor a separator.
HostLabelEnd(ls, p) ==
    IF HasAt(ls, p, "host") THEN p + 4
    ELSE IF HasAt(ls, p, "server_name") THEN p + 11
    ELSE IF HasAt(ls, p, "server") THEN p + 6 ELSE 0

\* [a-zA-Z0-9\-._]
HostChars == Upper \cup Lower \cup Digit \cup {"-", ".", "_"}

\* ([a-zA-Z0-9\-._]+(?::\d+)?) at q
HostPortAt(s, q) ==
    LET e == SkipClass(s, q, HostChars)
        d == SkipClass(s, e + 1, Digit)
    IN  IF e = q THEN <<>>
        ELSE IF At(s, e) = ":" /\ d > e + 1 THEN <<q, d - 1>>
        ELSE <<q, e - 1>>

\* \s*[:=]\s*"?(host) from l, the position after the label (0: no label).
HostValueAt(s, l) ==
    LET c == SkipClass(s, l, Space)
        q == SkipClass(s, c + 1, Space)
    IN  IF l = 0 \/ At(s, c) \notin {":", "="} THEN <<>>
        ELSE IF At(s, q) = "\"" THEN HostPortAt(s, q + 1)
        ELSE HostPortAt(s, q)

\* /\b(?:host|server_name|server)\s*[:=]\s*"?([a-zA-Z0-9\-._]+(?::\d+)?)"?/i
HostAt(s, ls, p) ==
    IF Boundary(ls, p - 1) THEN HostValueAt(s, HostLabelEnd(ls, p)) ELSE <<>>

\* text.match(re) without /g: the match at the leftmost position where the
\* expression M matches, from p on.
RECURSIVE Leftmost(_, _, _)
Leftmost(M(_), p, n) ==
    IF p > n THEN <<>>
    ELSE IF M(p) # <<>> THEN M(p)
    ELSE Leftmost(M, p + 1, n)

\* The text of a match.
Captured(s, m) == SubSeq(s, m[1], m[2])

\* [,;'")\]}>]
UrlTrail == CharsOf(",;'\")]}>")

\* u.replace(/[C]+$/, '')
TrimTrail(u, C) == SubSeq(u, 1, SkipBack(u, Len(u), C))

\* Strategy 0 on the labeled match.
LabeledUrl(s, m) == Some(TrimTrail(Captured(s, m), UrlTrail))

\* The path of strategy 1, for the match of the PATH label.
PathPart(s, pm) ==
    IF pm = <<>> THEN "" ELSE TrimTrail(Captured(s, pm), UrlTrail)

\* Strategy 1 on the match of BASE URL.
BaseUrl(s, ls, m) ==
    Some(TrimTrail(Captured(s, m), UrlTrail \cup {"/"})
         \o PathPart(s, Leftmost(LAMBDA p : PathLabelAt(s, ls, p), 1, Len(s))))

\* Strategy 2 on the raw match.
RawUrl(s, m) == Some(TrimTrail(Captured(s, m), UrlTrail))

\* /:\d*80$/.test(host)
EndsWithPort80(host) ==
    /\ Len(host) >= 3
    /\ SubSeq(host, Len(host) - 1, Len(host)) = "80"
    /\ At(host, SkipBack(host, Len(host) - 2, Digit)) = ":"

Scheme(host) == IF EndsWithPort80(host) THEN "http" ELSE "https"

\* Strategy 3 on the matches of the request line and of the host field.
Reconstructed(s, pm, hm) ==
    IF pm # <<>> /\ hm # <<>>
    THEN Some(Scheme(Captured(s, hm)) \o "://" \o Captured(s, hm) \o Captured(s, pm))
    ELSE IF hm # <<>> THEN Some("https://" \o Captured(s, hm))
    ELSE Absent

\* The strategies from the third on.
UrlFromRaw(s, ls, m) ==
    IF m # <<>> THEN RawUrl(s, m)
    ELSE Reconstructed(s, Leftmost(LAMBDA p : RequestLineAt(s, ls, p), 1, Len(s)),
                          Leftmost(LAMBDA p : HostAt(s, ls, p), 1, Len(s)))

\* The strategies from the second on.
UrlFromBase(s, ls, m) ==
    IF m # <<>> THEN BaseUrl(s, ls, m)
    ELSE UrlFromRaw(s, ls, Leftmost(LAMBDA p : RawUrlAt(s, p), 1, Len(s)))

\* BASE URL tried before the labeled URL.
UrlFromBaseFirst(s, ls, m) ==
    IF Leftmost(LAMBDA p : BaseUrlAt(s, ls, p), 1, Len(s)) # <<>>
    THEN BaseUrl(s, ls, Leftmost(LAMBDA p : BaseUrlAt(s, ls, p), 1, Len(s)))
    ELSE IF m # <<>> THEN LabeledUrl(s, m)
    ELSE UrlFromRaw(s, ls, Leftmost(LAMBDA p : RawUrlAt(s, p), 1, Len(s)))

UrlFromLabeled(s, ls, m) ==
    IF m # <<>> THEN LabeledUrl(s, m)
    ELSE UrlFromBase(s, ls, Leftmost(LAMBDA p : BaseUrlAt(s, ls, p), 1, Len(s)))

UrlOf(s, ls) ==
    UrlFromLabeled(s, ls, Leftmost(LAMBDA p : LabeledUrlAt(s, ls, p), 1, Len(s)))

extractUrl(t) == UrlOf(t, ToLower(t))

(***************************************************************************)
(* extractMethod.  A match of an explicit pattern is <<m>>, m the number   *)
(* of the captured method in METHODS.                                      *)
(***************************************************************************)
Quotes == {"\"", "'"}

\* The position after an optional quote at q.
AfterOptQuote(s, q) == IF At(s, q) \in Quotes THEN q + 1 ELSE q

\* (METHOD)["']?\b at q: the trailing \b holds either after the quote or
\* before it, so what follows the method must not be a word character.
MethodWordAt(ls, q) ==
    IF MethodAt(ls, q) # 0 /\ At(ls, MethodEnd(ls, q)) \notin Word
    THEN <<MethodAt(ls, q)>> ELSE <<>>

\* /\bmethod\s*[:=]\s*["']?(GET|...|OPTIONS)["']?\b/i at p
MethodFieldAt(ls, p) ==
    LET c == SkipClass(ls, p + 6, Space)
    IN  IF Boundary(ls, p - 1) /\ HasAt(ls, p, "method") /\ At(ls, c) \in {":", "="}
        THEN MethodWordAt(ls, AfterOptQuote(ls, SkipClass(ls, c + 1, Space)))
        ELSE <<>>

\* /\b(GET|...|OPTIONS)\s+\/\S+\s+HTTP/i at p
MethodLineAt(ls, p) ==
    IF RequestLineAt(ls, ls, p) # <<>> THEN <<MethodAt(ls, p)>> ELSE <<>>

\* ^ under the /m flag: the start of the text or of a line.
LineStart(s, p) == p = 1 \/ At(s, p - 1) \in {"\n", "\r"}

\* (METHOD)\s+https?:\/\/ at a
MethodThenUrlAt(ls, a) ==
    IF /\ MethodAt(ls, a) # 0
       /\ At(ls, MethodEnd(ls, a)) \in Space
       /\ SchemeEnd(ls, SkipClass(ls, MethodEnd(ls, a), Space)) # 0
    THEN <<MethodAt(ls, a)>> ELSE <<>>

\* /^\s*(GET|...|OPTIONS)\s+https?:\/\//im at p
MethodUrlAt(ls, p) ==
    IF LineStart(ls, p) THEN MethodThenUrlAt(ls, SkipClass(ls, p, Space)) ELSE <<>>

\* /\b(GET|...|OPTIONS)\s+REQUEST\b/i at p
MethodRequestAt(ls, p) ==
    LET e == MethodEnd(ls, p)
        b == SkipClass(ls, e, Space)
    IN  IF /\ Boundary(ls, p - 1) /\ e # 0 /\ b > e
           /\ HasAt(ls, b, "request") /\ Boundary(ls, b + 6)
        THEN <<MethodAt(ls, p)>> ELSE <<>>

\* FRAMEWORK_HINTS, in the source's order: the form of the expression, the
\* word it looks for and the method it stands for.
\*   "request": \bword[-_]?request\b      "call": \b<lib>word\b
\*   "fetch":   \bmethod\s*:\s*['"]word['"]   "datain": \bDATA\s+in\s+word
FRAMEWORK_HINTS ==
    << [form |-> "request", lib |-> "", word |-> "post", method |-> "POST"],
       [form |-> "request", lib |-> "", word |-> "put", method |-> "PUT"],
       [form |-> "request", lib |-> "", word |-> "patch", method |-> "PATCH"],
       [form |-> "request", lib |-> "", word |-> "delete", method |-> "DELETE"],
       [form |-> "request", lib |-> "", word |-> "get", method |-> "GET"],
       [form |-> "call", lib |-> "http.", word |-> "post", method |-> "POST"],
       [form |-> "call", lib |-> "http.", word |-> "put", method |-> "PUT"],
       [form |-> "call", lib |-> "http.", word |-> "patch", method |-> "PATCH"],
       [form |-> "call", lib |-> "http.", word |-> "delete", method |-> "DELETE"],
       [form |-> "call", lib |-> "http.", word |-> "get", method |-> "GET"],
       [form |-> "call", lib |-> "axios.", word |-> "post", method |-> "POST"],
       [form |-> "call", lib |-> "axios.", word |-> "put", method |-> "PUT"],
       [form |-> "call", lib |-> "axios.", word |-> "patch", method |-> "PATCH"],
       [form |-> "call", lib |-> "axios.", word |-> "delete", method |-> "DELETE"],
       [form |-> "call", lib |-> "axios.", word |-> "get", method |-> "GET"],
       [form |-> "fetch", lib |-> "", word |-> "post", method |-> "POST"],
       [form |-> "fetch", lib |-> "", word |-> "put", method |-> "PUT"],
       [form |-> "fetch", lib |-> "", word |-> "patch", method |-> "PATCH"],
       [form |-> "fetch", lib |-> "", word |-> "delete", method |-> "DELETE"],
       [form |-> "call", lib |-> "http::", word |-> "post", method |-> "POST"],
       [form |-> "call", lib |-> "http::", word |-> "put", method |-> "PUT"],
       [form |-> "call", lib |-> "http::", word |-> "patch", method |-> "PATCH"],
       [form |-> "call", lib |-> "http::", word |-> "delete", method |-> "DELETE"],
       [form |-> "call", lib |-> "http::", word |-> "get", method |-> "GET"],
       [form |-> "datain", lib |-> "", word |-> "post", method |-> "POST"],
       [form |-> "datain", lib |-> "", word |-> "put", method |-> "PUT"],
       [form |-> "datain", lib |-> "", word |-> "patch", method |-> "PATCH"],
       [form |-> "datain", lib |-> "", word |-> "delete", method |-> "DELETE"] >>

\* word[-_]?request\b at p
HintRequestAt(ls, p, word) ==
    LET b == IF At(ls, p + Len(word)) \in {"-", "_"}
             THEN p + Len(word) + 1 ELSE p + Len(word)
    IN  HasAt(ls, p, word) /\ HasAt(ls, b, "request") /\ Boundary(ls, b + 6)

\* <lib>word\b at p
HintCallAt(ls, p, call) == HasAt(ls, p, call) /\ Boundary(ls, p + Len(call) - 1)

\* method\s*:\s*['"]word['"] at p
HintFetchAt(ls, p, word) ==
    LET c == SkipClass(ls, p + 6, Space)
        q == SkipClass(ls, c + 1, Space)
    IN  /\ HasAt(ls, p, "method") /\ At(ls, c) = ":" /\ At(ls, q) \in Quotes
        /\ HasAt(ls, q + 1, word) /\ At(ls, q + 1 + Len(word)) \in Quotes

\* DATA\s+in\s+word at p
HintDataInAt(ls, p, word) ==
    LET e == TwoWordsEnd(ls, p, "data", "in")
    IN  e # 0 /\ At(ls, e) \in Space /\ HasAt(ls, SkipClass(ls, e, Space), word)

\* pattern.test(text) for the hint h
HintMatches(ls, h) ==
    \E p \in 1..Len(ls) :
        /\ Boundary(ls, p - 1)
        /\ CASE h.form = "request" -> HintRequestAt(ls, p, h.word)
             [] h.form = "call" -> HintCallAt(ls, p, h.lib \o h.word)
             [] h.form = "fetch" -> HintFetchAt(ls, p, h.word)
             [] h.form = "datain" -> HintDataInAt(ls, p, h.word)

\* The loop over FRAMEWORK_HINTS from the k-th on.
RECURSIVE MethodFromHints(_, _)
MethodFromHints(ls, k) ==
    IF k > Len(FRAMEWORK_HINTS) THEN Absent
    ELSE IF HintMatches(ls, FRAMEWORK_HINTS[k]) THEN Some(FRAMEWORK_HINTS[k].method)
    ELSE MethodFromHints(ls, k + 1)

\* m[1].toUpperCase()
MethodNames == <<"GET", "POST", "PUT", "PATCH", "DELETE", "HEAD", "OPTIONS">>

\* The loop over EXPLICIT_METHOD_PATTERNS from the k-th on, m the match of
\* the k-th.
MethodFromRequest(ls, m) ==
    IF m # <<>> THEN Some(MethodNames[m[1]]) ELSE MethodFromHints(ls, 1)

MethodFromUrl(ls, m) ==
    IF m # <<>> THEN Some(MethodNames[m[1]])
    ELSE MethodFromRequest(ls, Leftmost(LAMBDA p : MethodRequestAt(ls, p), 1, Len(ls)))

MethodFromLine(ls, m) ==
    IF m # <<>> THEN Some(MethodNames[m[1]])
    ELSE MethodFromUrl(ls, Leftmost(LAMBDA p : MethodUrlAt(ls, p), 1, Len(ls)))

MethodFromField(ls, m) ==
    IF m # <<>> THEN Some(MethodNames[m[1]])
    ELSE MethodFromLine(ls, Leftmost(LAMBDA p : MethodLineAt(ls, p), 1, Len(ls)))

MethodOf(ls) ==
    MethodFromField(ls, Leftmost(LAMBDA p : MethodFieldAt(ls, p), 1, Len(ls)))

extractMethod(t) == MethodOf(ToLower(t))

(***************************************************************************)
(* extractToken                                                            *)
(***************************************************************************)
\* [\s,;'"}\]] , the characters that end a token of the first two patterns
TokenStop == Space \cup {",", ";", "'", "\"", "}", "]"}

\* [a-zA-Z0-9|._\-/+=]
TokenChars == Upper \cup Lower \cup Digit \cup CharsOf("|._-/+=")

\* ([^\s,;'"}\]]+) at b
OpenTokenAt(s, b) ==
    IF SkipNotClass(s, b, TokenStop) > b
    THEN <<b, SkipNotClass(s, b, TokenStop) - 1>> ELSE <<>>

\* ([a-zA-Z0-9|._\-/+=]{10,}) at b
LongTokenAt(s, b) ==
    IF SkipClass(s, b, TokenChars) >= b + 10
    THEN <<b, SkipClass(s, b, TokenChars) - 1>> ELSE <<>>

\* bearer\s+([^\s,;'"}\]]+) at q
BearerValueAt(s, ls, q) ==
    IF HasAt(ls, q, "bearer") /\ At(s, q + 6) \in Space
    THEN OpenTokenAt(s, SkipClass(s, q + 6, Space)) ELSE <<>>

\* /authorization\s*[:=]\s*['"]?bearer\s+([^\s,;'"}\]]+)/i at p
AuthorizationAt(s, ls, p) ==
    LET c == SkipClass(s, p + 13, Space)
    IN  IF HasAt(ls, p, "authorization") /\ At(s, c) \in {":", "="}
        THEN BearerValueAt(s, ls, AfterOptQuote(s, SkipClass(s, c + 1, Space)))
        ELSE <<>>

\* /\buser\s+token\s+([^\s,;'"}\]]+)/i at p
UserTokenAt(s, ls, p) ==
    LET e == TwoWordsEnd(ls, p, "user", "token")
    IN  IF Boundary(ls, p - 1) /\ e # 0 /\ At(s, e) \in Space
        THEN OpenTokenAt(s, SkipClass(s, e, Space)) ELSE <<>>

\* \s*[:=]\s*['"]?([a-zA-Z0-9|._\-/+=]{10,}) from l, the position after the
\* key (0: no key).
TokenValueAt(s, l) ==
    LET c == SkipClass(s, l, Space)
    IN  IF l # 0 /\ At(s, c) \in {":", "="}
        THEN LongTokenAt(s, AfterOptQuote(s, SkipClass(s, c + 1, Space)))
        ELSE <<>>

\* /\btoken\s*[:=]\s*['"]?([a-zA-Z0-9|._\-/+=]{10,})['"]?/i at p
TokenFieldAt(s, ls, p) ==
    IF Boundary(ls, p - 1) /\ HasAt(ls, p, "token")
    THEN TokenValueAt(s, p + 5) ELSE <<>>

\* access[-_]?token at p: the position after it, or 0.
AccessTokenEnd(ls, p) ==
    LET a == IF At(ls, p + 6) \in {"-", "_"} THEN p + 7 ELSE p + 6
    IN  IF HasAt(ls, p, "access") /\ HasAt(ls, a, "token") THEN a + 5 ELSE 0

\* /\baccess[-_]?token\s*[:=]\s*['"]?([a-zA-Z0-9|._\-/+=]{10,})['"]?/i at p
AccessTokenAt(s, ls, p) ==
    IF Boundary(ls, p - 1) THEN TokenValueAt(s, AccessTokenEnd(ls, p)) ELSE <<>>

\* /\bBearer\s+([a-zA-Z0-9|._\-/+=]{10,})/ at p (no /i)
BearerAt(s, p) ==
    IF Boundary(s, p - 1) /\ HasAt(s, p, "Bearer") /\ At(s, p + 6) \in Space
    THEN LongTokenAt(s, SkipClass(s, p + 6, Space)) ELSE <<>>

\* The loop over TOKEN_PATTERNS from the k-th on, m the match of the k-th.
TokenFromBearer(s, m) == IF m # <<>> THEN Some(Captured(s, m)) ELSE Absent

TokenFromAccess(s, ls, m) ==
    IF m # <<>> THEN Some(Captured(s, m))
    ELSE TokenFromBearer(s, Leftmost(LAMBDA p : BearerAt(s, p), 1, Len(s)))

TokenFromField(s, ls, m) ==
    IF m # <<>> THEN Some(Captured(s, m))
    ELSE TokenFromAccess(s, ls, Leftmost(LAMBDA p : AccessTokenAt(s, ls, p), 1, Len(s)))

TokenFromUser(s, ls, m) ==
    IF m # <<>> THEN Some(Captured(s, m))
    ELSE TokenFromField(s, ls, Leftmost(LAMBDA p : TokenFieldAt(s, ls, p), 1, Len(s)))

TokenFromAuthorization(s, ls, m) ==
    IF m # <<>> THEN Some(Captured(s, m))
    ELSE TokenFromUser(s, ls, Leftmost(LAMBDA p : UserTokenAt(s, ls, p), 1, Len(s)))

TokenOf(s, ls) ==
    TokenFromAuthorization(s, ls, Leftmost(LAMBDA p : AuthorizationAt(s, ls, p), 1, Len(s)))

extractToken(t) == TokenOf(t, ToLower(t))

(***************************************************************************)
(* extractCustomHeaders                                                    *)
(***************************************************************************)
\* String.prototype.trim
Trim(s) == SubSeq(s, SkipClass(s, 1, Space), SkipBack(s, Len(s), Space))

\* [\u2500-\u257F\-=*_~+\s] ; the modelled inputs hold no box-drawing
\* characters.
SeparatorChars == {"-", "=", "*", "_", "~", "+"} \cup Space

isSeparatorLine(line) ==
    Trim(line) = "" \/ AllIn(Trim(line), 1, Len(Trim(line)), SeparatorChars)

\* /HEADERS?\s*:\s*$/i.test(cleaned), lc being cleaned in lower case
IsHeadersLabel(lc) ==
    LET e == SkipBack(lc, Len(lc), Space)
        a == SkipBack(lc, e - 1, Space)
    IN  /\ e >= 1 /\ At(lc, e) = ":"
        /\ (BackLit(lc, a, "headers") >= 0 \/ BackLit(lc, a, "header") >= 0)

\* stripLogPrefixes(lines[i]).trim()
Cleaned(line) == Trim(stripLogPrefixes(line))

\* The first loop: the number of the line after the HEADERS: line, counted
\* from 1, or 0 when there is none (sectionStart = -1).
RECURSIVE SectionStart(_, _)
SectionStart(lines, k) ==
    IF k > Len(lines) THEN 0
    ELSE IF IsHeadersLabel(ToLower(Cleaned(lines[k]))) THEN k + 1
    ELSE SectionStart(lines, k + 1)

\* cleaned.indexOf(':'), counted from 1; 0 when there is none.
ColonIdx(cleaned) ==
    IF SkipNotClass(cleaned, 1, {":"}) > Len(cleaned) THEN 0
    ELSE SkipNotClass(cleaned, 1, {":"})

\* /^[\w\-]+$/.test(key)
IsHeaderKey(key) == key # "" /\ AllIn(key, 1, Len(key), Word \cup {"-"})

\* The header of a cleaned line whose first colon is at c.
HeaderOf(cleaned, c) ==
    [key |-> Trim(SubSeq(cleaned, 1, c - 1)), value |-> Trim(From(cleaned, c + 1))]

\* One round of the second loop on a cleaned line: <<header>>, or <<>> to
\* stop reading.
HeaderLine(cleaned) ==
    IF isSeparatorLine(cleaned) THEN <<>>
    ELSE IF ColonIdx(cleaned) <= 1 THEN <<>>
    ELSE IF IsHeaderKey(HeaderOf(cleaned, ColonIdx(cleaned)).key)
         THEN <<HeaderOf(cleaned, ColonIdx(cleaned))>>
    ELSE <<>>

\* A loop that skips the lines that are no headers.
RECURSIVE ReadHeadersSkipping(_, _)
ReadHeadersSkipping(lines, k) ==
    IF k > Len(lines) THEN <<>>
    ELSE HeaderLine(Cleaned(lines[k])) \o ReadHeadersSkipping(lines, k + 1)

\* The second loop, from line k on.
RECURSIVE ReadHeaders(_, _)
ReadHeaders(lines, k) ==
    IF k > Len(lines) THEN <<>>
    ELSE IF HeaderLine(Cleaned(lines[k])) = <<>> THEN <<>>
    ELSE HeaderLine(Cleaned(lines[k])) \o ReadHeaders(lines, k + 1)

HeadersFrom(lines, sectionStart) ==
    IF sectionStart = 0 THEN <<>> ELSE ReadHeaders(lines, sectionStart)

HeadersOfLines(lines) == HeadersFrom(lines, SectionStart(lines, 1))

extractCustomHeaders(t) == HeadersOfLines(SplitLines(t))

(***************************************************************************)
(* buildCurl.  The components are a record of url, method, token, body and *)
(* customHeaders; token and body are <<>> for null.                        *)
(***************************************************************************)
\* new Set(custom.map(h => h.key.toLowerCase()))
CustomLower(custom) == {ToLower(custom[k].key) : k \in 1..Len(custom)}

\* The default headers, each skipped when the log supplies it.
DefaultHeaders(customLower) ==
    (IF "accept" \notin customLower
     THEN <<[key |-> "Accept", value |-> "application/json"]>> ELSE <<>>)
    \o (IF "content-type" \notin customLower
        THEN <<[key |-> "Content-Type", value |-> "application/json"]>> ELSE <<>>)

\* The Authorization header from the token, unless the log supplies one.
TokenHeader(tok, customLower) ==
    IF tok # Absent /\ tok[1] # "" /\ "authorization" \notin customLower
    THEN <<[key |-> "Authorization", value |-> "Bearer " \o tok[1]]>>
    ELSE <<>>

\* The log's headers put before the defaults.
AllHeadersCustomFirst(c) ==
    c.customHeaders
    \o DefaultHeaders(CustomLower(c.customHeaders))
    \o TokenHeader(c.token, CustomLower(c.customHeaders))

AllHeaders(c) ==
    DefaultHeaders(CustomLower(c.customHeaders))
    \o c.customHeaders
    \o TokenHeader(c.token, CustomLower(c.customHeaders))

\* lines[lines.length - 1] += ' \\'; lines.push(line)
PushLine(lines, line) ==
    [lines EXCEPT ![Len(lines)] = @ \o " \\"] \o <<line>>

\* The loop that emits the headers hs from the k-th on.
RECURSIVE EmitHeaders(_, _, _)
EmitHeaders(lines, hs, k) ==
    IF k > Len(hs) THEN lines
    ELSE EmitHeaders(PushLine(lines, "  --header \"" \o hs[k].key \o ": "
                                        \o hs[k].value \o "\""),
                     hs, k + 1)

EmitBodyAlways(lines, body) ==
    IF body # Absent THEN PushLine(lines, "  --data '" \o body[1] \o "'")
    ELSE PushLine(lines, "  --data ''")

\* if (c.body) { ... }
EmitBody(lines, body) ==
    IF body # Absent /\ body[1] # ""
    THEN PushLine(lines, "  --data '" \o body[1] \o "'")
    ELSE lines

buildCurl(c) ==
    JoinLines(EmitBody(EmitHeaders(<<"curl --location \"" \o c.url \o "\" \\",
                                     "  --request " \o c.method>>,
                                   AllHeaders(c), 1),
                       c.body))

(***************************************************************************)
(* JSON.parse.  A parse step gives a record: st is "ok" with the value v   *)
(* and the position pos after it, "throw" for a SyntaxError, or            *)
(* "unsupported" for text that this model does not interpret (numbers with *)
(* an exponent or more than 15 digits, \u escapes outside ASCII).          *)
(***************************************************************************)
Throw == [st |-> "throw"]

Unsupported == [st |-> "unsupported"]

Ok(v, p) == [st |-> "ok", v |-> v, pos |-> p]

\* The white space of the JSON grammar.
JsonSpace == {" ", "\t", "\n", "\r"}

\* The control characters that a TLA+ string can hold.
Control == {"\t", "\n", "\r", "\f"}

HexStr == "0123456789abcdef"

\* The value of a hexadecimal digit, -1 for any other character.
HexVal(c) ==
    IF \E k \in 1..16 : At(HexStr, k) = ToLowerChar(c)
    THEN (CHOOSE k \in 1..16 : At(HexStr, k) = ToLowerChar(c)) - 1
    ELSE -1

\* The printable ASCII characters U+0020 to U+005F and U+0061 to U+007E (a
\* TLA+ string cannot hold U+0060).
AsciiLow == " !\"#$%&'()*+,-./0123456789:;<=>?@ABCDEFGHIJKLMNOPQRSTUVWXYZ[\\]^_"

AsciiHigh == "abcdefghijklmnopqrstuvwxyz{|}~"

\* A character as JSON.stringify writes it inside a string.
QuoteChar(c) ==
    CASE c = "\"" -> "\\\""
      [] c = "\\" -> "\\\\"
      [] c = "\n" -> "\\n"
      [] c = "\r" -> "\\r"
      [] c = "\t" -> "\\t"
      [] c = "\f" -> "\\f"
      [] OTHER -> c

\* The code unit n as JSON.stringify writes it, "" when the model cannot.
QuoteCode(n) ==
    IF n = 8 THEN "\\b"
    ELSE IF n = 9 THEN "\\t"
    ELSE IF n = 10 THEN "\\n"
    ELSE IF n = 12 THEN "\\f"
    ELSE IF n = 13 THEN "\\r"
    ELSE IF n < 32 THEN "\\u00" \o At(HexStr, (n \div 16) + 1) \o At(HexStr, (n % 16) + 1)
    ELSE IF n <= 95 THEN QuoteChar(At(AsciiLow, n - 31))
    ELSE IF n >= 97 /\ n <= 126 THEN At(AsciiHigh, n - 96)
    ELSE ""

\* The code unit of the four hexadecimal digits at p, -1 when they are not.
Hex4(s, p) ==
    IF \A k \in 0..3 : HexVal(At(s, p + k)) >= 0
    THEN 4096 * HexVal(At(s, p)) + 256 * HexVal(At(s, p + 1))
         + 16 * HexVal(At(s, p + 2)) + HexVal(At(s, p + 3))
    ELSE -1

\* The characters of a string from p on, acc holding what was read so far.
RECURSIVE JsonChars(_, _, _)
JsonChars(s, p, acc) ==
    IF p > Len(s) THEN Throw
    ELSE IF At(s, p) = "\"" THEN Ok(JStr(acc), p + 1)
    ELSE IF At(s, p) \in Control THEN Throw
    ELSE IF At(s, p) # "\\" THEN JsonChars(s, p + 1, acc \o At(s, p))
    ELSE IF At(s, p + 1) \in {"\"", "\\", "b", "f", "n", "r", "t"}
         THEN JsonChars(s, p + 2, acc \o "\\" \o At(s, p + 1))
    ELSE IF At(s, p + 1) = "/" THEN JsonChars(s, p + 2, acc \o "/")
    ELSE IF At(s, p + 1) # "u" \/ Hex4(s, p + 2) < 0 THEN Throw
    ELSE IF QuoteCode(Hex4(s, p + 2)) = "" THEN Unsupported
    ELSE JsonChars(s, p + 6, acc \o QuoteCode(Hex4(s, p + 2)))

\* frac without its trailing zeros
StripZeros(frac) == SubSeq(frac, 1, SkipBack(frac, Len(frac), {"0"}))

\* The number of significant digits of int.frac
Significant(int, frac) ==
    IF int # "0" THEN Len(int) + Len(frac)
    ELSE Len(frac) - (SkipClass(frac, 1, {"0"}) - 1)

\* The number -?int.frac as JSON.stringify writes it, frac being without
\* trailing zeros; "" when the model cannot tell (more than 15 significant
\* digits, or a number below 0.000001 that is written with an exponent).
CanonNumber(neg, int, frac) ==
    IF int = "0" /\ frac = "" THEN "0"
    ELSE IF Significant(int, frac) > 15 THEN ""
    ELSE IF int = "0" /\ SkipClass(frac, 1, {"0"}) > 6 THEN ""
    ELSE (IF neg THEN "-" ELSE "") \o int \o (IF frac = "" THEN "" ELSE "." \o frac)

\* The number whose integer part is s[a..b-1] and which ends before c.
NumberValue(s, neg, a, b, c) ==
    IF CanonNumber(neg, SubSeq(s, a, b - 1), StripZeros(SubSeq(s, b + 1, c - 1))) = ""
    THEN Unsupported
    ELSE Ok(JNum(CanonNumber(neg, SubSeq(s, a, b - 1),
                             StripZeros(SubSeq(s, b + 1, c - 1)))), c)

\* An optional exponent at c.
NumberExp(s, neg, a, b, c) ==
    LET d == IF At(s, c + 1) \in {"+", "-"} THEN c + 2 ELSE c + 1
    IN  IF At(s, c) \notin {"e", "E"} THEN NumberValue(s, neg, a, b, c)
        ELSE IF SkipClass(s, d, Digit) = d THEN Throw
        ELSE Unsupported

\* An optional fraction at b.
NumberFrac(s, neg, a, b) ==
    IF At(s, b) # "." THEN NumberExp(s, neg, a, b, b)
    ELSE IF SkipClass(s, b + 1, Digit) = b + 1 THEN Throw
    ELSE NumberExp(s, neg, a, b, SkipClass(s, b + 1, Digit))

\* The integer part at a: 0, or a run of digits that does not start with 0.
NumberInt(s, neg, a) ==
    IF At(s, a) = "0" THEN NumberFrac(s, neg, a, a + 1)
    ELSE IF At(s, a) \in Digit THEN NumberFrac(s, neg, a, SkipClass(s, a, Digit))
    ELSE Throw

JsonNumberAt(s, p) ==
    IF At(s, p) = "-" THEN NumberInt(s, TRUE, p + 1) ELSE NumberInt(s, FALSE, p)

\* A digit string is below or equal to another of the same length.
RECURSIVE DigitsLeq(_, _)
DigitsLeq(a, b) ==
    IF a = "" THEN TRUE
    ELSE IF Head(a) = Head(b) THEN DigitsLeq(Tail(a), Tail(b))
    ELSE HexVal(Head(a)) < HexVal(Head(b))

\* A key that is an array index (0 to 2^32 - 2): such keys come first in an
\* object, in ascending order.
IsIndexKey(k) ==
    /\ k # "" /\ AllIn(k, 1, Len(k), Digit)
    /\ (k = "0" \/ At(k, 1) # "0")
    /\ (Len(k) < 10 \/ (Len(k) = 10 /\ DigitsLeq(k, "4294967294")))

\* Index key a comes before index key b.
IndexBefore(a, b) == Len(a) < Len(b) \/ (Len(a) = Len(b) /\ DigitsLeq(a, b))

\* The place of a new key among the entries es: an index key goes before
\* the first key that is not an index or is a greater one, any other key
\* goes last.
RECURSIVE PlaceOf(_, _, _)
PlaceOf(es, k, j) ==
    IF j > Len(es) THEN j
    ELSE IF ~IsIndexKey(k) THEN Len(es) + 1
    ELSE IF IsIndexKey(es[j][1]) /\ IndexBefore(es[j][1], k) THEN PlaceOf(es, k, j + 1)
    ELSE j

\* obj[k] = v on the entries es: a key the object has keeps its place.
PutEntry(es, k, v) ==
    IF \E j \in 1..Len(es) : es[j][1] = k
    THEN [j \in 1..Len(es) |-> IF es[j][1] = k THEN <<k, v>> ELSE es[j]]
    ELSE SubSeq(es, 1, PlaceOf(es, k, 1) - 1) \o << <<k, v>> >>
         \o SubSeq(es, PlaceOf(es, k, 1), Len(es))

RECURSIVE JsonValueAt(_, _)
RECURSIVE JsonMembers(_, _, _)
RECURSIVE JsonElements(_, _, _)

\* What follows a member value that ended before q.
MemberNext(s, q, es) ==
    IF At(s, q) = "," THEN JsonMembers(s, q + 1, es)
    ELSE IF At(s, q) = "}" THEN Ok(JObj(es), q + 1)
    ELSE Throw

\* The value of the member with key k.
MemberValue(s, es, k, r) ==
    IF r.st # "ok" THEN r
    ELSE MemberNext(s, SkipClass(s, r.pos, JsonSpace), PutEntry(es, k, r.v))

\* The colon and the value after the key read as r.
MemberColon(s, es, r, c) ==
    IF At(s, c) # ":" THEN Throw
    ELSE MemberValue(s, es, r.v[2], JsonValueAt(s, c + 1))

MemberKey(s, es, r) ==
    IF r.st # "ok" THEN r ELSE MemberColon(s, es, r, SkipClass(s, r.pos, JsonSpace))

\* The members of an object from p on, es holding those read so far.
JsonMembers(s, p, es) ==
    IF At(s, SkipClass(s, p, JsonSpace)) # "\"" THEN Throw
    ELSE MemberKey(s, es, JsonChars(s, SkipClass(s, p, JsonSpace) + 1, ""))

ElementNext(s, q, vs) ==
    IF At(s, q) = "," THEN JsonElements(s, q + 1, vs)
    ELSE IF At(s, q) = "]" THEN Ok(JArr(vs), q + 1)
    ELSE Throw

ElementValue(s, vs, r) ==
    IF r.st # "ok" THEN r
    ELSE ElementNext(s, SkipClass(s, r.pos, JsonSpace), Append(vs, r.v))

\* The elements of an array from p on, vs holding those read so far.
JsonElements(s, p, vs) == ElementValue(s, vs, JsonValueAt(s, p))

\* After '{' at p - 1.
JsonObjectAt(s, p) ==
    IF At(s, SkipClass(s, p, JsonSpace)) = "}"
    THEN Ok(JObj(<<>>), SkipClass(s, p, JsonSpace) + 1)
    ELSE JsonMembers(s, p, <<>>)

\* After '[' at p - 1.
JsonArrayAt(s, p) ==
    IF At(s, SkipClass(s, p, JsonSpace)) = "]"
    THEN Ok(JArr(<<>>), SkipClass(s, p, JsonSpace) + 1)
    ELSE JsonElements(s, p, <<>>)

\* The value whose first character is at q.
JsonTokenAt(s, q) ==
    IF At(s, q) = "{" THEN JsonObjectAt(s, q + 1)
    ELSE IF At(s, q) = "[" THEN JsonArrayAt(s, q + 1)
    ELSE IF At(s, q) = "\"" THEN JsonChars(s, q + 1, "")
    ELSE IF HasAt(s, q, "true") THEN Ok(JBool(TRUE), q + 4)
    ELSE IF HasAt(s, q, "false") THEN Ok(JBool(FALSE), q + 5)
    ELSE IF HasAt(s, q, "null") THEN Ok(JNull, q + 4)
    ELSE JsonNumberAt(s, q)

JsonValueAt(s, p) == JsonTokenAt(s, SkipClass(s, p, JsonSpace))

\* The whole text must be one value.
JsonWhole(s, r) ==
    IF r.st # "ok" THEN [st |-> r.st]
    ELSE IF SkipClass(s, r.pos, JsonSpace) <= Len(s) THEN Throw
    ELSE [st |-> "ok", v |-> r.v]

JsonParse(s) == JsonWhole(s, JsonValueAt(s, 1))

(***************************************************************************)
(* JSON.stringify(value, null, 2)                                          *)
(***************************************************************************)
RECURSIVE Spaces(_)
Spaces(n) == IF n = 0 THEN "" ELSE " " \o Spaces(n - 1)

RECURSIVE Stringify(_, _)
RECURSIVE StringifyItems(_, _, _, _)

\* The items of an object (keyed) or an array from the j-th on, one per
\* line at indentation ind.
StringifyItems(items, keyed, j, ind) ==
    IF j > Len(items) THEN ""
    ELSE Spaces(ind)
         \o (IF keyed THEN "\"" \o items[j][1] \o "\": " \o Stringify(items[j][2], ind)
             ELSE Stringify(items[j], ind))
         \o (IF j < Len(items) THEN ",\n" ELSE "\n")
         \o StringifyItems(items, keyed, j + 1, ind)

\* The text of value v, whose own line is indented by ind.
Stringify(v, ind) ==
    CASE v[1] = "null" -> "null"
      [] v[1] = "bool" -> (IF v[2] THEN "true" ELSE "false")
      [] v[1] = "num" -> v[2]
      [] v[1] = "str" -> "\"" \o v[2] \o "\""
      [] v[1] = "arr" ->
            IF v[2] = <<>> THEN "[]"
            ELSE "[\n" \o StringifyItems(v[2], FALSE, 1, ind + 2) \o Spaces(ind) \o "]"
      [] v[1] = "obj" ->
            IF v[2] = <<>> THEN "{}"
            ELSE "{\n" \o StringifyItems(v[2], TRUE, 1, ind + 2) \o Spaces(ind) \o "}"

JsonStringify(v) == Stringify(v, 0)

(***************************************************************************)
(* swapSingleToDoubleQuotes                                                *)
(***************************************************************************)
RECURSIVE SwapOutside(_, _)
RECURSIVE SwapInside(_, _)

\* The outer loop at p, outside a single-quoted string.
SwapOutside(s, p) ==
    IF p > Len(s) THEN ""
    ELSE IF At(s, p) = "'" THEN "\"" \o SwapInside(s, p + 1)
    ELSE At(s, p) \o SwapOutside(s, p + 1)

\* The inner loop at p, inside a single-quoted string.
SwapInside(s, p) ==
    IF p > Len(s) THEN "\""
    ELSE IF At(s, p) = "'" THEN "\"" \o SwapOutside(s, p + 1)
    ELSE IF At(s, p) = "\\" /\ p + 1 <= Len(s)
         THEN At(s, p) \o At(s, p + 1) \o SwapInside(s, p + 2)
    ELSE IF At(s, p) = "\"" THEN "\\\"" \o SwapInside(s, p + 1)
    ELSE At(s, p) \o SwapInside(s, p + 1)

swapSingleToDoubleQuotes(t) == SwapOutside(t, 1)

(***************************************************************************)
(* LogBodyParser.  A parse method gives a record: st is "ok" with the text *)
(* out it returns and the position pos it leaves (1-based: pos of the      *)
(* source plus 1), "throw" when it throws, or "diverge" when its loop      *)
(* comes back to the state it started a round in and so never ends.        *)
(***************************************************************************)
Parsed(out, p) == [st |-> "ok", out |-> out, pos |-> p]

Diverge == [st |-> "diverge"]

\* l.trimStart() starts with '//' or '#'
IsCommentLine(l) ==
    HasAt(l, SkipClass(l, 1, Space), "//") \/ HasAt(l, SkipClass(l, 1, Space), "#")

RECURSIVE DropComments(_)
DropComments(ls) ==
    IF ls = <<>> THEN <<>>
    ELSE (IF IsCommentLine(Head(ls)) THEN <<>> ELSE <<Head(ls)>>)
         \o DropComments(Tail(ls))

\* The constructor: the text without its comment lines.
ParserText(t) == JoinLines(DropComments(SplitLines(t)))

\* parseDoubleQuotedString after the opening quote, content read so far.
RECURSIVE DoubleQuoted(_, _, _)
DoubleQuoted(s, p, content) ==
    IF p > Len(s) THEN Parsed("\"" \o content \o "\"", p)
    ELSE IF At(s, p) = "\"" THEN Parsed("\"" \o content \o "\"", p + 1)
    ELSE IF At(s, p) # "\\" THEN DoubleQuoted(s, p + 1, content \o At(s, p))
    ELSE IF p + 1 > Len(s) THEN DoubleQuoted(s, p + 1, content)
    ELSE IF At(s, p + 1) \in {"\"", "\\", "/", "b", "f", "n", "r", "t"}
         THEN DoubleQuoted(s, p + 2, content \o "\\" \o At(s, p + 1))
    ELSE IF At(s, p + 1) = "u" THEN DoubleQuoted(s, p + 2, content \o "\\u")
    ELSE DoubleQuoted(s, p + 2, content \o At(s, p + 1))

\* parseSingleQuotedString after the opening quote.
RECURSIVE SingleQuoted(_, _, _)
SingleQuoted(s, p, content) ==
    IF p > Len(s) THEN Parsed("\"" \o content \o "\"", p)
    ELSE IF At(s, p) = "'" THEN Parsed("\"" \o content \o "\"", p + 1)
    ELSE IF At(s, p) = "\\"
         THEN IF p + 1 > Len(s) THEN SingleQuoted(s, p + 1, content)
              ELSE SingleQuoted(s, p + 2, content \o At(s, p + 1))
    ELSE IF At(s, p) = "\"" THEN SingleQuoted(s, p + 1, content \o "\\\"")
    ELSE SingleQuoted(s, p + 1, content \o At(s, p))

\* [\w\-.$]
KeyChars == Word \cup {"-", ".", "$"}

\* parseKey
parseKey(s, p) ==
    LET q == SkipClass(s, p, Space)
        e == SkipClass(s, q, KeyChars)
    IN  IF At(s, q) = "\"" THEN DoubleQuoted(s, q + 1, "")
        ELSE IF At(s, q) = "'" THEN SingleQuoted(s, q + 1, "")
        ELSE IF e = q THEN Throw
        ELSE Parsed("\"" \o SubSeq(s, q, e - 1) \o "\"", e)

\* /^word\b/i.test(rest) || /^Word\b/.test(rest), for rest = text from q
LiteralAt(s, q, word) ==
    HasAtI(s, q, word) /\ At(s, q + Len(word)) \notin Word

\* The end of -?(?:0|[1-9]\d*) at q, 0 when it does not match.
NumIntEnd(s, q) ==
    LET a == IF At(s, q) = "-" THEN q + 1 ELSE q
    IN  IF At(s, a) = "0" THEN a + 1
        ELSE IF At(s, a) \in Digit THEN SkipClass(s, a, Digit)
        ELSE 0

\* The end of an optional (?:\.\d+) at b.
NumFracEnd(s, b) ==
    IF At(s, b) = "." /\ SkipClass(s, b + 1, Digit) > b + 1
    THEN SkipClass(s, b + 1, Digit) ELSE b

\* The end of an optional (?:[eE][+-]?\d+) at c.
NumExpEnd(s, c) ==
    LET d == IF At(s, c + 1) \in {"+", "-"} THEN c + 2 ELSE c + 1
    IN  IF At(s, c) \in {"e", "E"} /\ SkipClass(s, d, Digit) > d
        THEN SkipClass(s, d, Digit) ELSE c

\* (?=[,\s}\]\n]|$) at e
NumberMayEnd(s, e) == e > Len(s) \/ At(s, e) \in Space \cup {",", "}", "]"}

\* The position after the number literal at q, 0 when the number
\* expression does not match.
NumberEnd(s, q) ==
    IF NumIntEnd(s, q) = 0 THEN 0
    ELSE IF NumberMayEnd(s, NumExpEnd(s, NumFracEnd(s, NumIntEnd(s, q))))
         THEN NumExpEnd(s, NumFracEnd(s, NumIntEnd(s, q)))
    ELSE 0

\* /^[\w"'][\w\-.$]*["']?\s*:/.test(ahead) || /^[}\]]/.test(ahead), for
\* ahead = the text from a
LooksLikeKey(s, a) ==
    \/ At(s, a) \in {"}", "]"}
    \/ /\ At(s, a) \in Word \cup Quotes
       /\ At(s, SkipClass(s, AfterOptQuote(s, SkipClass(s, a + 1, KeyChars)), Space)) = ":"

\* The loop of parseUnquotedValue: the position where the unquoted string
\* ends.
RECURSIVE UnquotedEnd(_, _)
UnquotedEnd(s, p) ==
    IF p > Len(s) THEN p
    ELSE IF At(s, p) \in {",", "}", "]"} THEN p
    ELSE IF At(s, p) = "\n" /\ LooksLikeKey(s, SkipClass(s, p + 1, Space)) THEN p
    ELSE UnquotedEnd(s, p + 1)

\* The chain of replace calls that escapes an unquoted string.
RECURSIVE EscapeRaw(_)
EscapeRaw(raw) ==
    IF raw = "" THEN ""
    ELSE (CASE Head(raw) = "\\" -> "\\\\"
            [] Head(raw) = "\"" -> "\\\""
            [] Head(raw) = "\n" -> "\\n"
            [] Head(raw) = "\r" -> "\\r"
            [] Head(raw) = "\t" -> "\\t"
            [] OTHER -> Head(raw))
         \o EscapeRaw(Tail(raw))

\* The unquoted string from q to before e.
UnquotedString(s, q, e) ==
    IF Trim(SubSeq(s, q, e - 1)) = "" THEN Parsed("null", e)
    ELSE Parsed("\"" \o EscapeRaw(Trim(SubSeq(s, q, e - 1))) \o "\"", e)

\* parseUnquotedValue, after its skipWhitespace
UnquotedAt(s, q) ==
    IF LiteralAt(s, q, "null") \/ (HasAt(s, q, "None") /\ At(s, q + 4) \notin Word)
    THEN Parsed("null", q + 4)
    ELSE IF LiteralAt(s, q, "true") THEN Parsed("true", q + 4)
    ELSE IF LiteralAt(s, q, "false") THEN Parsed("false", q + 5)
    ELSE IF NumberEnd(s, q) # 0 THEN Parsed(SubSeq(s, q, NumberEnd(s, q) - 1), NumberEnd(s, q))
    ELSE UnquotedString(s, q, UnquotedEnd(s, q))

parseUnquotedValue(s, p) == UnquotedAt(s, SkipClass(s, p, Space))

\* if (this.peek() === ',') { this.advance(); }
AfterComma(s, p) == IF At(s, p) = "," THEN p + 1 ELSE p

RECURSIVE parseValue(_, _)
RECURSIVE ObjectLoop(_, _, _)
RECURSIVE ArrayLoop(_, _, _)

\* entries.join(', ')
RECURSIVE JoinComma(_)
JoinComma(es) ==
    IF es = <<>> THEN ""
    ELSE IF Len(es) = 1 THEN es[1]
    ELSE es[1] \o ", " \o JoinComma(Tail(es))

\* After the loop of parseObject: if (!this.eof()) { this.expect('}'); }
ObjectEnd(s, p, entries) ==
    IF p > Len(s) THEN Parsed("{" \o JoinComma(entries) \o "}", p)
    ELSE IF At(s, p) = "}" THEN Parsed("{" \o JoinComma(entries) \o "}", p + 1)
    ELSE Throw

\* entries.push(`${key}: ${value}`); skipWhitespace(); and the next round.
ObjectPush(s, entries, key, r) ==
    IF r.st # "ok" THEN r
    ELSE ObjectLoop(s, SkipClass(s, r.pos, Space),
                    Append(entries, key \o ": " \o r.out))

\* The value of an entry at p: an empty value is null.
ObjectValue(s, p, entries, key) ==
    IF At(s, p) \in {",", "}"} THEN ObjectPush(s, entries, key, Parsed("null", p))
    ELSE ObjectPush(s, entries, key, parseValue(s, p))

\* skipWhitespace(); expect(':'); skipWhitespace(); after the key read as r.
ObjectColon(s, entries, r) ==
    IF r.st # "ok" THEN r
    ELSE IF At(s, SkipClass(s, r.pos, Space)) # ":" THEN Throw
    ELSE ObjectValue(s, SkipClass(s, SkipClass(s, r.pos, Space) + 1, Space),
                     entries, r.out)

\* One entry at p, or the end of the object at a trailing comma.
ObjectEntry(s, p, entries, trailing) ==
    IF trailing /\ At(s, p) = "}" THEN ObjectEnd(s, p, entries)
    ELSE ObjectColon(s, entries, parseKey(s, p))

\* One round of the loop of parseObject at p.
ObjectLoop(s, p, entries) ==
    IF p > Len(s) \/ At(s, p) = "}" THEN ObjectEnd(s, p, entries)
    ELSE IF entries = <<>> THEN ObjectEntry(s, p, entries, FALSE)
    ELSE ObjectEntry(s, SkipClass(s, AfterComma(s, p), Space), entries, TRUE)

\* parseObject at the '{' at q
parseObject(s, q) == ObjectLoop(s, SkipClass(s, q + 1, Space), <<>>)

\* After the loop of parseArray: if (!this.eof()) { this.expect(']'); }
ArrayEnd(s, p, elements) ==
    IF p > Len(s) THEN Parsed("[" \o JoinComma(elements) \o "]", p)
    ELSE IF At(s, p) = "]" THEN Parsed("[" \o JoinComma(elements) \o "]", p + 1)
    ELSE Throw

\* elements.push(value); skipWhitespace(); and the next round.  A round that
\* began at p with elements in the array and ends at p changes nothing but
\* the number of elements, and so does every round after it.
ArrayPush(s, p, elements, r) ==
    IF r.st # "ok" THEN r
    ELSE IF elements # <<>> /\ SkipClass(s, r.pos, Space) = p THEN Diverge
    ELSE ArrayLoop(s, SkipClass(s, r.pos, Space), Append(elements, r.out))

\* One element at q in the round that began at p, or the end of the array
\* at a trailing comma.
ArrayElement(s, p, q, elements, trailing) ==
    IF trailing /\ At(s, q) = "]" THEN ArrayEnd(s, q, elements)
    ELSE ArrayPush(s, p, elements, parseValue(s, q))

\* One round of the loop of parseArray at p.
ArrayLoop(s, p, elements) ==
    IF p > Len(s) \/ At(s, p) = "]" THEN ArrayEnd(s, p, elements)
    ELSE IF elements = <<>> THEN ArrayElement(s, p, p, elements, FALSE)
    ELSE ArrayElement(s, p, SkipClass(s, AfterComma(s, p), Space), elements, TRUE)

\* parseArray at the '[' at q
parseArray(s, q) == ArrayLoop(s, SkipClass(s, q + 1, Space), <<>>)

\* parseValue, after its skipWhitespace
ValueAt(s, q) ==
    IF At(s, q) = "{" THEN parseObject(s, q)
    ELSE IF At(s, q) = "[" THEN parseArray(s, q)
    ELSE IF At(s, q) = "\"" THEN DoubleQuoted(s, q + 1, "")
    ELSE IF At(s, q) = "'" THEN SingleQuoted(s, q + 1, "")
    ELSE parseUnquotedValue(s, q)

parseValue(s, p) == ValueAt(s, SkipClass(s, p, Space))

\* new LogBodyParser(text).parse()
parse(t) == parseValue(ParserText(t), SkipClass(ParserText(t), 1, Space))

(***************************************************************************)
(* normalizeBody.  The result is a record: st is "ok" with the text out,   *)
(* "throw", "diverge", or "unsupported".                                    *)
(***************************************************************************)
Normalized(out) == [st |-> "ok", out |-> out]

\* JSON.stringify(JSON.parse(jsonStr), null, 2) on the text the parser made;
\* a SyntaxError propagates.
Validated(r) ==
    IF r.st = "ok" THEN Normalized(JsonStringify(r.v)) ELSE [st |-> r.st]

\* 3. the recursive-descent parser, r being what parse gives
FullNormalization(r) ==
    IF r.st = "ok" THEN Validated(JsonParse(r.out)) ELSE [st |-> r.st]

\* 2. r is JSON.parse of the text with single quotes swapped
SwappedOr(trimmed, r) ==
    IF r.st = "ok" THEN Normalized(JsonStringify(r.v))
    ELSE IF r.st = "unsupported" THEN Unsupported
    ELSE FullNormalization(parse(trimmed))

\* 1. r is JSON.parse of the text as it is
ValidOr(trimmed, r) ==
    IF r.st = "ok" THEN Normalized(JsonStringify(r.v))
    ELSE IF r.st = "unsupported" THEN Unsupported
    ELSE SwappedOr(trimmed, JsonParse(swapSingleToDoubleQuotes(trimmed)))

NormalizeTrimmed(trimmed) == ValidOr(trimmed, JsonParse(trimmed))

normalizeBody(raw) == NormalizeTrimmed(Trim(raw))


(***************************************************************************)
(* The log2curl.convert command handler (activate).  shown is the list of  *)
(* messages and prompts the user has seen, with the answer given to each   *)
(* prompt; emitted is the list of places the command text was delivered to.*)
(***************************************************************************)
Message(kind, message) == [kind |-> kind, message |-> message, answer |-> ""]

Prompt(kind, message, answer) == [kind |-> kind, message |-> message, answer |-> answer]

\* !x for a string or null x
Falsy(x) == IF x = Absent THEN TRUE ELSE x[1] = ""

\* ['GET', 'POST', 'PUT', 'PATCH', 'DELETE'] of the quick pick
PickItems == {"GET", "POST", "PUT", "PATCH", "DELETE"}

\* A handler that never asks about a missing body.
needsBodyNever(m) == FALSE

\* ['POST', 'PUT', 'PATCH'].includes(method)
needsBody(m) == m \in {"POST", "PUT", "PATCH"}

\* What a warning prompt resolves to: a button, or undefined when dismissed.
WarningAnswers == {"Yes", "Cancel", "dismissed"}

BodyWarning == "Log2Curl: Could not parse the request body. Generate cURL without body?"

NoBodyWarning(m) ==
    "Log2Curl: No request body found for " \o m \o ". Generate cURL without body?"

\* The try block of step 5 from JSON.parse on, r being JSON.parse(normalized).
BodyParsed(r) ==
    IF r.st = "ok"
    THEN [st |-> "ok", parsed |-> r.v, unwrapped |-> unwrapBodyIfNeeded(r.v),
          json |-> JsonStringify(unwrapBodyIfNeeded(r.v))]
    ELSE [st |-> r.st]

\* ... n being normalizeBody(cleaned)
BodyCleaned(n) == IF n.st = "ok" THEN BodyParsed(JsonParse(n.out)) ELSE [st |-> n.st]

\* The whole try block of step 5 on the raw body: st is "ok" with the JSON
\* text, "throw" when the catch clause is entered, "diverge" when the call
\* never returns.
BodyOutcome(raw) == BodyCleaned(normalizeBody(stripLogPrefixes(raw)))

MaxConvFrags == 4

\* The pieces of a log: two URL lines, a method line, a request line behind
\* a log prefix, a headers section, a token line, and five candidate bodies.
ConvFragments ==
    << "FULL URL: http://a.io/x\n", "FULL URL: http://a.io/\"x\n",
       "method: POST\n", "flutter: POST http://r.io/y\n",
       "HEADERS:\nX-A: say \"hi\"\n\n", "token: abcdefghij\n",
       "{a:1}\n", "{\"a\":\"it's\"}\n", "{:1}\n", "{a: [1}\n",
       "{url:\"/u\",method:\"PUT\",data:{b:2}}\n" >>

\* The pieces numbered in S, from the j-th on, in the order of the list.
RECURSIVE Picked(_, _, _)
Picked(F, S, j) ==
    IF j > Len(F) THEN ""
    ELSE (IF j \in S THEN F[j] ELSE "") \o Picked(F, S, j + 1)

ConvTexts ==
    {Picked(ConvFragments, S, 1) :
        S \in {T \in SUBSET (1..Len(ConvFragments)) : Cardinality(T) <= MaxConvFrags}}

InitConvert ==
    /\ pc = "read"
    /\ text \in ConvTexts
    /\ StripIdle /\ ScanIdle /\ BodyIdle /\ UnwrapIdle /\ ConvIdle

\* 1. clipboard.readText() rejects
ReadFails ==
    /\ pc = "read"
    /\ shown' = Append(shown, Message("error",
                   "Log2Curl: Could not read clipboard. Copy your logs and try again."))
    /\ pc' = "done"
    /\ UNCHANGED <<text, stripVars, scanVars, bodyVars, unwrapVars, url, method,
                   token, customHeaders, bodyJson, curl, emitted>>

ClipboardEmpty ==
    /\ pc = "read"
    /\ Trim(text) = ""
    /\ shown' = Append(shown, Message("error", "Log2Curl: Clipboard is empty."))
    /\ pc' = "done"
    /\ UNCHANGED <<text, stripVars, scanVars, bodyVars, unwrapVars, url, method,
                   token, customHeaders, bodyJson, curl, emitted>>

\* 2. no URL: the handler returns
UrlMissing ==
    /\ pc = "read"
    /\ Trim(text) # ""
    /\ Falsy(extractUrl(text))
    /\ shown' = Append(shown, Message("error",
                   "Log2Curl: No HTTP/HTTPS URL found in clipboard."))
    /\ pc' = "done"
    /\ UNCHANGED <<text, stripVars, scanVars, bodyVars, unwrapVars, url, method,
                   token, customHeaders, bodyJson, curl, emitted>>

\* A handler that goes on whatever extractUrl returned.
UrlAssumed ==
    /\ pc = "read"
    /\ Trim(text) # ""
    /\ url' = extractUrl(text)
    /\ pc' = "method"
    /\ UNCHANGED <<text, stripVars, scanVars, bodyVars, unwrapVars, method,
                   token, customHeaders, bodyJson, curl, shown, emitted>>

UrlFound ==
    /\ pc = "read"
    /\ Trim(text) # ""
    /\ ~Falsy(extractUrl(text))
    /\ url' = extractUrl(text)
    /\ pc' = "method"
    /\ UNCHANGED <<text, stripVars, scanVars, bodyVars, unwrapVars, method,
                   token, customHeaders, bodyJson, curl, shown, emitted>>

\* 3. the method is in the text
MethodDetected ==
    /\ pc = "method"
    /\ ~Falsy(extractMethod(text))
    /\ method' = extractMethod(text)
    /\ pc' = "extract"
    /\ UNCHANGED <<text, stripVars, scanVars, bodyVars, unwrapVars, url,
                   token, customHeaders, bodyJson, curl, shown, emitted>>

\* ... or the user picks one
MethodPicked ==
    /\ pc = "method"
    /\ Falsy(extractMethod(text))
    /\ \E picked \in PickItems :
          /\ shown' = Append(shown, Prompt("pick",
                         "Could not detect HTTP method - please select one", picked))
          /\ method' = Some(picked)
    /\ pc' = "extract"
    /\ UNCHANGED <<text, stripVars, scanVars, bodyVars, unwrapVars, url,
                   token, customHeaders, bodyJson, curl, emitted>>

\* ... or cancels the quick pick
MethodCancelled ==
    /\ pc = "method"
    /\ Falsy(extractMethod(text))
    /\ shown' = Append(shown, Prompt("pick",
                   "Could not detect HTTP method - please select one", "dismissed"))
    /\ pc' = "done"
    /\ UNCHANGED <<text, stripVars, scanVars, bodyVars, unwrapVars, url, method,
                   token, customHeaders, bodyJson, curl, emitted>>

\* 4, 4b and the extractBody call of 5
ExtractParts ==
    /\ pc = "extract"
    /\ token' = extractToken(text)
    /\ customHeaders' = extractCustomHeaders(text)
    /\ rawBody' = extractBody(text)
    /\ pc' = "body"
    /\ UNCHANGED <<text, stripVars, scanVars, scored, unwrapVars, url, method,
                   bodyJson, curl, shown, emitted>>

\* 5. the body is normalized, parsed, unwrapped and printed
BodyNormalized ==
    /\ pc = "body"
    /\ ~Falsy(rawBody)
    /\ BodyOutcome(rawBody[1]).st = "ok"
    /\ parsed' = Some(BodyOutcome(rawBody[1]).parsed)
    /\ unwrapped' = Some(BodyOutcome(rawBody[1]).unwrapped)
    /\ bodyJson' = Some(BodyOutcome(rawBody[1]).json)
    /\ pc' = "build"
    /\ UNCHANGED <<text, stripVars, scanVars, bodyVars, url, method, token,
                   customHeaders, curl, shown, emitted>>

\* ... or the catch clause asks, and the user answers Yes
BodyFailedProceed ==
    /\ pc = "body"
    /\ ~Falsy(rawBody)
    /\ BodyOutcome(rawBody[1]).st = "throw"
    /\ shown' = Append(shown, Prompt("warning", BodyWarning, "Yes"))
    /\ pc' = "build"
    /\ UNCHANGED <<text, stripVars, scanVars, bodyVars, unwrapVars, url, method,
                   token, customHeaders, bodyJson, curl, emitted>>

\* ... or answers anything else: the handler returns
BodyFailedAbort ==
    /\ pc = "body"
    /\ ~Falsy(rawBody)
    /\ BodyOutcome(rawBody[1]).st = "throw"
    /\ \E choice \in WarningAnswers \ {"Yes"} :
          shown' = Append(shown, Prompt("warning", BodyWarning, choice))
    /\ pc' = "done"
    /\ UNCHANGED <<text, stripVars, scanVars, bodyVars, unwrapVars, url, method,
                   token, customHeaders, bodyJson, curl, emitted>>

\* ... or normalizeBody never returns: the handler stays inside the call
BodyHangs ==
    /\ pc = "body"
    /\ ~Falsy(rawBody)
    /\ BodyOutcome(rawBody[1]).st = "diverge"
    /\ pc' = "hung"
    /\ UNCHANGED <<text, stripVars, scanVars, bodyVars, unwrapVars, convVars>>

\* no body, and a method that does not usually need one
NoBodySilent ==
    /\ pc = "body"
    /\ Falsy(rawBody)
    /\ ~needsBody(method[1])
    /\ pc' = "build"
    /\ UNCHANGED <<text, stripVars, scanVars, bodyVars, unwrapVars, convVars>>

\* no body for POST, PUT or PATCH: the user is asked, and answers Yes
NoBodyProceed ==
    /\ pc = "body"
    /\ Falsy(rawBody)
    /\ needsBody(method[1])
    /\ shown' = Append(shown, Prompt("warning", NoBodyWarning(method[1]), "Yes"))
    /\ pc' = "build"
    /\ UNCHANGED <<text, stripVars, scanVars, bodyVars, unwrapVars, url, method,
                   token, customHeaders, bodyJson, curl, emitted>>

\* ... or answers anything else: the handler returns
NoBodyAbort ==
    /\ pc = "body"
    /\ Falsy(rawBody)
    /\ needsBody(method[1])
    /\ \E choice \in WarningAnswers \ {"Yes"} :
          shown' = Append(shown, Prompt("warning", NoBodyWarning(method[1]), choice))
    /\ pc' = "done"
    /\ UNCHANGED <<text, stripVars, scanVars, bodyVars, unwrapVars, url, method,
                   token, customHeaders, bodyJson, curl, emitted>>

\* 6. buildCurl({ url, method, token, body: bodyJson, customHeaders })
Build ==
    /\ pc = "build"
    /\ curl' = buildCurl([url |-> url[1], method |-> method[1], token |-> token,
                          body |-> bodyJson, customHeaders |-> customHeaders])
    /\ pc' = "write"
    /\ UNCHANGED <<text, stripVars, scanVars, bodyVars, unwrapVars, url, method,
                   token, customHeaders, bodyJson, shown, emitted>>

\* 7. the command is copied
CopyToClipboard ==
    /\ pc = "write"
    /\ emitted' = Append(emitted, [to |-> "clipboard", content |-> curl])
    /\ shown' = Append(shown, Message("info", "Log2Curl: cURL copied to clipboard!"))
    /\ pc' = "done"
    /\ UNCHANGED <<text, stripVars, scanVars, bodyVars, unwrapVars, url, method,
                   token, customHeaders, bodyJson, curl>>

\* ... or clipboard.writeText rejects and the command is opened in a tab
OpenInEditor ==
    /\ pc = "write"
    /\ emitted' = Append(emitted, [to |-> "editor", content |-> curl])
    /\ shown' = Append(shown, Message("info",
                   "Log2Curl: Clipboard unavailable - opened cURL in a new tab."))
    /\ pc' = "done"
    /\ UNCHANGED <<text, stripVars, scanVars, bodyVars, unwrapVars, url, method,
                   token, customHeaders, bodyJson, curl>>

\* ... or the editor cannot be opened either: the top-level catch reports it
DeliveryFails ==
    /\ pc = "write"
    /\ shown' = Append(shown, Message("error", "Log2Curl: unexpected error"))
    /\ pc' = "done"
    /\ UNCHANGED <<text, stripVars, scanVars, bodyVars, unwrapVars, url, method,
                   token, customHeaders, bodyJson, curl, emitted>>

NextConvert ==
    \/ ReadFails \/ ClipboardEmpty \/ UrlMissing \/ UrlFound
    \/ MethodDetected \/ MethodPicked \/ MethodCancelled
    \/ ExtractParts
    \/ BodyNormalized \/ BodyFailedProceed \/ BodyFailedAbort \/ BodyHangs
    \/ NoBodySilent \/ NoBodyProceed \/ NoBodyAbort
    \/ Build
    \/ CopyToClipboard \/ OpenInEditor \/ DeliveryFails

SpecConvert == InitConvert /\ [][NextConvert]_vars

\* Sanity: every body of the enumerated texts is interpreted by the model.
ConvertSupported ==
    (pc = "body" /\ ~Falsy(rawBody)) => BodyOutcome(rawBody[1]).st # "unsupported"

\* s has the text sub somewhere.
Contains(s, sub) == \E p \in 1..Len(s) : HasAt(s, p, sub)

\* The number of places of s where the text sub starts.
Occurrences(s, sub) == Cardinality({p \in 1..Len(s) : HasAt(s, p, sub)})

\* The warning prompts the user has seen, in order.
Warnings == SelectSeq(shown, LAMBDA m : m.kind = "warning")

\* The handler has passed steps 4, 4b and the extractBody call.
Extracted == method # Absent /\ pc \in {"body", "build", "write", "done", "hung"}

\* The handler is past the whole of step 5, or inside it for good.
BodyStepOver == method # Absent /\ pc \in {"build", "write", "done", "hung"}

\* Step 7 ended: the command was delivered, or neither the clipboard nor an
\* editor tab could take it and the error was reported.
Delivered ==
    \/ /\ Len(emitted) = 1
       /\ emitted[1].content = curl
       /\ emitted[1].to \in {"clipboard", "editor"}
    \/ /\ emitted = <<>>
       /\ shown[Len(shown)] = Message("error", "Log2Curl: unexpected error")

\* The command that buildCurl makes of what the extractors find in text,
\* with the method m and without a body.
CommandWithoutBody(m) ==
    buildCurl([url |-> extractUrl(text)[1], method |-> m,
               token |-> extractToken(text), body |-> Absent,
               customHeaders |-> extractCustomHeaders(text)])

\* C3: a missing URL is fatal.  In every state of a run on a text in which
\* extractUrl finds no URL, the handler is at its start or has returned, no
\* method was detected or asked for, no token, header or body was extracted,
\* no command was built and nothing was delivered; and whenever a command
\* has been delivered, extractUrl had returned a non-empty URL.
C3_MissingUrlFatal ==
    /\ Falsy(extractUrl(text)) =>
          /\ pc \in {"read", "done"}
          /\ \A k \in 1..Len(shown) : shown[k].kind = "error"
          /\ url = Absent /\ method = Absent /\ token = Absent
          /\ customHeaders = <<>> /\ rawBody = Absent /\ bodyJson = Absent
          /\ curl = "" /\ emitted = <<>>
    /\ emitted # <<>> => ~Falsy(url) /\ url = extractUrl(text)

\* The handler returned on a text that has a method and a body but no URL.
C3_Witness ==
    /\ pc = "done"
    /\ Trim(text) # ""
    /\ Falsy(extractUrl(text))
    /\ ~Falsy(extractMethod(text)) /\ ~Falsy(extractBody(text))
    /\ shown = <<Message("error", "Log2Curl: No HTTP/HTTPS URL found in clipboard.")>>

\* What holds of a missing token and of missing custom headers: the command
\* carries no Authorization header, resp. only the default headers and the
\* token's, and the only prompts are about the body.
TokenAndHeadersOptional ==
    /\ (Falsy(token) /\ curl # "") => ~Contains(curl, "--header \"Authorization: Bearer ")
    /\ (customHeaders = <<>> /\ curl # "") =>
          Occurrences(curl, "--header ") = (IF Falsy(token) THEN 2 ELSE 3)
    /\ \A k \in 1..Len(Warnings) :
          \/ Warnings[k].message = BodyWarning /\ ~Falsy(rawBody)
          \/ Warnings[k].message = NoBodyWarning(method[1]) /\ Falsy(rawBody)

\* C4 as stated: a missing token, missing custom headers or a missing body
\* is silently optional for every method.  In every state after the
\* extractors ran, a part they did not find is left out of the command,
\* and when the body is the missing part the user has seen no warning
\* prompt and a handler that returned has delivered the command.
C4_SilentlyOptional ==
    Extracted =>
       /\ TokenAndHeadersOptional
       /\ Falsy(rawBody) =>
             /\ Warnings = <<>>
             /\ curl # "" => ~Contains(curl, "--data")
             /\ pc = "done" => Delivered

\* C4, amended: a missing token and missing custom headers are silently
\* optional for every method, and so is a missing body for GET and DELETE;
\* when the body is missing and the method is POST, PUT or PATCH the user is
\* asked once whether to go on without a body: on Yes the command is
\* delivered without a --data part, on any other answer the handler returns
\* and nothing is built or delivered.
C4_OptionalParts ==
    Extracted =>
       /\ TokenAndHeadersOptional
       /\ (Falsy(rawBody) /\ curl # "") => curl = CommandWithoutBody(method[1])
       /\ (Falsy(rawBody) /\ curl # "") => ~Contains(curl, "--data")
       /\ (Falsy(rawBody) /\ method[1] \notin {"POST", "PUT", "PATCH"}) =>
             /\ Warnings = <<>>
             /\ pc = "done" => Delivered
       /\ (Falsy(rawBody) /\ method[1] \in {"POST", "PUT", "PATCH"}) =>
             IF pc = "body" THEN Warnings = <<>>
             ELSE /\ Len(Warnings) = 1
                  /\ Warnings[1].message = NoBodyWarning(method[1])
                  /\ Warnings[1].answer \in WarningAnswers
                  /\ IF Warnings[1].answer = "Yes"
                     THEN pc = "done" => Delivered
                     ELSE pc = "done" /\ curl = "" /\ emitted = <<>>

\* A POST command without token, custom headers or body was delivered after
\* the user said Yes to going on without a body.
C4_Witness ==
    /\ pc = "done"
    /\ method = Some("POST")
    /\ Falsy(token) /\ customHeaders = <<>> /\ Falsy(rawBody)
    /\ Len(Warnings) = 1 /\ Warnings[1].answer = "Yes"
    /\ Len(emitted) = 1
    /\ emitted[1].content = curl
    /\ ~Contains(curl, "--data")

\* C5: a body that cannot be normalized never aborts the conversion by
\* itself.  In every state after step 5 of a run whose body candidate does
\* not come out of stripping, normalizeBody, JSON.parse and unwrap, the user
\* has been asked exactly once whether to generate the command without the
\* body; after Yes the command is the one built of the same URL, method and
\* headers with no --data part and a handler that returned has delivered
\* it, after any other answer the handler has returned and nothing was
\* built or delivered.
C5_BodyFailureOffersChoice ==
    (BodyStepOver /\ ~Falsy(rawBody) /\ BodyOutcome(rawBody[1]).st # "ok") =>
       /\ Len(Warnings) = 1
       /\ Warnings[1].message = BodyWarning
       /\ Warnings[1].answer \in WarningAnswers
       /\ bodyJson = Absent
       /\ IF Warnings[1].answer = "Yes"
          THEN /\ pc \in {"build", "write", "done"}
               /\ curl # "" => curl = CommandWithoutBody(method[1])
               /\ curl # "" => ~Contains(curl, "--data")
               /\ pc = "done" => Delivered
          ELSE pc = "done" /\ curl = "" /\ emitted = <<>>

\* The same, of the bodies on which step 5 throws.
BodyThrowOffersChoice ==
    (BodyStepOver /\ ~Falsy(rawBody) /\ BodyOutcome(rawBody[1]).st = "throw") =>
       /\ Len(Warnings) = 1
       /\ Warnings[1].message = BodyWarning
       /\ Warnings[1].answer \in WarningAnswers
       /\ bodyJson = Absent
       /\ IF Warnings[1].answer = "Yes"
          THEN /\ pc \in {"build", "write", "done"}
               /\ curl # "" => curl = CommandWithoutBody(method[1])
               /\ curl # "" => ~Contains(curl, "--data")
               /\ pc = "done" => Delivered
          ELSE pc = "done" /\ curl = "" /\ emitted = <<>>

\* The number of backslashes that end just before position p of s.
RECURSIVE BackslashesBefore(_, _)
BackslashesBefore(s, p) ==
    IF p > 1 /\ At(s, p - 1) = "\\" THEN 1 + BackslashesBefore(s, p - 1) ELSE 0

\* s has a double quote that a shell reading "..." takes as the closing one.
HasUnescapedQuote(s) ==
    \E p \in 1..Len(s) : At(s, p) = "\"" /\ BackslashesBefore(s, p) % 2 = 0

\* The headers of the command that was built.
BuiltHeaders ==
    AllHeaders([token |-> token, customHeaders |-> customHeaders])

\* C2: the command is a syntactically valid shell command.  Whenever a
\* command has been built, the body put inside --data '...' has no single
\* quote, and the URL and the header values put inside "..." have no
\* unescaped double quote.
C2_QuotingValid ==
    curl # "" =>
       /\ ~HasUnescapedQuote(url[1])
       /\ \A k \in 1..Len(BuiltHeaders) : ~HasUnescapedQuote(BuiltHeaders[k].value)
       /\ bodyJson # Absent => ~Contains(bodyJson[1], "'")

\* The three ways in which a built command has a quote that closes early.
C2_UrlQuote == curl # "" => ~HasUnescapedQuote(url[1])

C2_HeaderQuote ==
    curl # "" => \A k \in 1..Len(BuiltHeaders) : ~HasUnescapedQuote(BuiltHeaders[k].value)

C2_BodyQuote == (curl # "" /\ bodyJson # Absent) => ~Contains(bodyJson[1], "'")

(***************************************************************************)
(* Specification of buildCurl on components: a URL, a method, a token or   *)
(* none, a body or none, and up to MaxCurlHeaders custom headers.          *)
(***************************************************************************)
MaxCurlHeaders == 3

\* Custom headers as extractCustomHeaders gives them: keys of word
\* characters and '-', in any letter case, repeated or not.
CurlHeaders ==
    { [key |-> "Accept", value |-> "text/plain"],
      [key |-> "content-type", value |-> "text/xml"],
      [key |-> "AUTHORIZATION", value |-> "Basic abc"],
      [key |-> "X-A", value |-> "1"],
      [key |-> "X-A", value |-> "2"] }

\* Bodies as JSON.stringify(parsed, null, 2) gives them.
CurlBodies == {Absent, Some("{}"), Some("{\n  \"a\": 1\n}")}

InitCurl ==
    /\ pc = "curl"
    /\ url = Some("http://a.io/x")
    /\ method = Some("POST")
    /\ token \in {Absent, Some("abcdefghij")}
    /\ bodyJson \in CurlBodies
    /\ customHeaders \in SeqsUpTo(CurlHeaders, MaxCurlHeaders)
    /\ curl = "" /\ shown = <<>> /\ emitted = <<>>
    /\ text = ""
    /\ StripIdle /\ ScanIdle /\ BodyIdle /\ UnwrapIdle

BuildCommand ==
    /\ pc = "curl"
    /\ curl' = buildCurl([url |-> url[1], method |-> method[1], token |-> token,
                          body |-> bodyJson, customHeaders |-> customHeaders])
    /\ pc' = "curlDone"
    /\ UNCHANGED <<text, stripVars, scanVars, bodyVars, unwrapVars, url, method,
                   token, customHeaders, bodyJson, shown, emitted>>

NextCurl == BuildCommand

SpecCurl == InitCurl /\ [][NextCurl]_vars

\* Some custom header has the key name, in any letter case.
Supplies(name) == \E k \in 1..Len(customHeaders) : ToLower(customHeaders[k].key) = name

\* The --header lines the command is to have, in order.
ExpectedHeaderLines ==
    (IF Supplies("accept") THEN <<>> ELSE <<"  --header \"Accept: application/json\"">>)
    \o (IF Supplies("content-type") THEN <<>>
        ELSE <<"  --header \"Content-Type: application/json\"">>)
    \o [k \in 1..Len(customHeaders) |->
           "  --header \"" \o customHeaders[k].key \o ": " \o customHeaders[k].value \o "\""]
    \o (IF token # Absent /\ ~Supplies("authorization")
        THEN <<"  --header \"Authorization: Bearer " \o token[1] \o "\"">> ELSE <<>>)

\* The last line of the command when there is a body.
DataPart == " \\\n  --data '" \o bodyJson[1] \o "'"

\* The command without its --data part.
CommandHead ==
    IF bodyJson = Absent THEN curl
    ELSE SubSeq(curl, 1, Len(curl) - Len(DataPart))

\* A line without the backslash that continues it.
Uncontinued(line) ==
    IF Len(line) >= 2 /\ SubSeq(line, Len(line) - 1, Len(line)) = " \\"
    THEN SubSeq(line, 1, Len(line) - 2) ELSE line

\* C12: the --header lines of the command are the default Accept (exactly
\* when no custom key is 'accept' in any letter case), the default
\* Content-Type (exactly when no custom key is 'content-type'), every custom
\* header verbatim in extraction order with duplicates kept, and
\* 'Authorization: Bearer <token>' exactly when there is a token and no
\* custom key is 'authorization'; --data is there exactly when there is a
\* body, and is the last line.
C12_HeaderOrder ==
    pc = "curlDone" =>
       /\ bodyJson # Absent =>
             /\ Len(curl) > Len(DataPart)
             /\ SubSeq(curl, Len(curl) - Len(DataPart) + 1, Len(curl)) = DataPart
       /\ ~Contains(CommandHead, "--data")
       /\ Len(SplitLines(CommandHead)) = 2 + Len(ExpectedHeaderLines)
       /\ \A k \in 1..Len(ExpectedHeaderLines) :
             Uncontinued(SplitLines(CommandHead)[2 + k]) = ExpectedHeaderLines[k]
       /\ \A k \in 1..2 : ~HasAt(SplitLines(CommandHead)[k], 1, "  --header ")

\* A command with a body, a token, a custom accept header and the same key
\* twice.
C12_Witness ==
    /\ pc = "curlDone"
    /\ bodyJson = Some("{\n  \"a\": 1\n}")
    /\ token # Absent
    /\ customHeaders = << [key |-> "X-A", value |-> "2"],
                          [key |-> "Accept", value |-> "text/plain"],
                          [key |-> "X-A", value |-> "1"] >>
    /\ Len(ExpectedHeaderLines) = 5

(***************************************************************************)
(* Specification of extractUrl on texts of up to MaxUrlFrags pieces, in    *)
(* any order.                                                              *)
(***************************************************************************)
MaxUrlFrags == 3

UrlFragments ==
    { "FULL URL: http://f.io/a, ", "endpoint:https://e.io ",
      "BASE URL: http://b.io/ ", "PATH: /p ", "http://r.io/x ",
      "GET /q HTTP/1.1 ", "host: h.io:8080 ", "host=h.io:80 ", "server: h.io " }

InitUrl ==
    /\ pc = "url"
    /\ text \in TextsOf(UrlFragments, MaxUrlFrags)
    /\ StripIdle /\ ScanIdle /\ BodyIdle /\ UnwrapIdle /\ ConvIdle

ExtractUrl ==
    /\ pc = "url"
    /\ url' = extractUrl(text)
    /\ pc' = "urlDone"
    /\ UNCHANGED <<text, stripVars, scanVars, bodyVars, unwrapVars, method,
                   token, customHeaders, bodyJson, curl, shown, emitted>>

NextUrl == ExtractUrl

SpecUrl == InitUrl /\ [][NextUrl]_vars

\* The places of 1..n where the expression M matches.
PlacesOf(M(_), n) == {q \in 1..n : M(q) # <<>>}

\* The values of the labelled FULL URL / REQUEST URL / ENDPOINT fields of
\* the text s (ls in lower case), without trailing punctuation.
LabeledValuesOf(s, ls) ==
    {TrimTrail(Captured(s, LabeledUrlAt(s, ls, p)), UrlTrail) :
        p \in PlacesOf(LAMBDA q : LabeledUrlAt(s, ls, q), Len(s))}

LabeledValues == LabeledValuesOf(text, ToLower(text))

\* The values of the BASE URL fields, without trailing punctuation and '/'.
BaseValuesOf(s, ls) ==
    {TrimTrail(Captured(s, BaseUrlAt(s, ls, p)), UrlTrail \cup {"/"}) :
        p \in PlacesOf(LAMBDA q : BaseUrlAt(s, ls, q), Len(s))}

BaseValues == BaseValuesOf(text, ToLower(text))

\* The values of the PATH fields; the empty path when there is none.
PathValuesOf(s, ls) ==
    IF PlacesOf(LAMBDA q : PathLabelAt(s, ls, q), Len(s)) = {} THEN {""}
    ELSE {TrimTrail(Captured(s, PathLabelAt(s, ls, p)), UrlTrail) :
            p \in PlacesOf(LAMBDA q : PathLabelAt(s, ls, q), Len(s))}

PathValues == PathValuesOf(text, ToLower(text))

\* The places where a raw http(s):// token starts.
RawPlaces == {q \in 1..Len(text) : RawUrlAt(text, q) # <<>>}

\* The hosts of the host / server_name / server fields.
HostValuesOf(s, ls) ==
    {Captured(s, HostAt(s, ls, p)) : p \in PlacesOf(LAMBDA q : HostAt(s, ls, q), Len(s))}

HostValues == HostValuesOf(text, ToLower(text))

\* The paths of the request lines; the empty path when there is none.
RequestPathsOf(s, ls) ==
    IF PlacesOf(LAMBDA q : RequestLineAt(s, ls, q), Len(s)) = {} THEN {""}
    ELSE {Captured(s, RequestLineAt(s, ls, p)) :
            p \in PlacesOf(LAMBDA q : RequestLineAt(s, ls, q), Len(s))}

RequestPaths == RequestPathsOf(text, ToLower(text))

\* C13: extractUrl applies its four strategies in strict priority order.  A
\* labelled FULL URL / REQUEST URL / ENDPOINT value is returned whenever
\* there is one; else the BASE URL value with the PATH value, if any; else
\* the first raw http(s):// token; else, when the text has a host field, a
\* URL made of that host (and the request-line path); else absent.
C13_UrlPriority ==
    pc = "urlDone" =>
       IF LabeledValues # {} THEN url # Absent /\ url[1] \in LabeledValues
       ELSE IF BaseValues # {}
            THEN url # Absent /\ url[1] \in {b \o q : b \in BaseValues, q \in PathValues}
       ELSE IF RawPlaces # {}
            THEN url = Some(TrimTrail(Captured(text,
                        RawUrlAt(text, CHOOSE p \in RawPlaces : \A q \in RawPlaces : p <= q)),
                        UrlTrail))
       ELSE IF HostValues # {}
            THEN url # Absent /\ url[1] \in
                    {sch \o "://" \o h \o q :
                        sch \in {"http", "https"}, h \in HostValues, q \in RequestPaths}
       ELSE url = Absent

\* A labelled URL was returned from a text where a BASE URL and a raw URL
\* come before it.
C13_Witness ==
    /\ pc = "urlDone"
    /\ text = "BASE URL: http://b.io/ http://r.io/x FULL URL: http://f.io/a, "
    /\ url = Some("http://f.io/a")

\* The scheme of the URL returned.
SchemeOf(u) ==
    IF HasAt(u, 1, "https://") THEN "https"
    ELSE IF HasAt(u, 1, "http://") THEN "http" ELSE ""

\* The URL was put together from a request-line path and a host field.
WasReconstructed ==
    /\ pc = "urlDone"
    /\ LabeledValues = {} /\ BaseValues = {} /\ RawPlaces = {}
    /\ HostValues # {}
    /\ RequestPaths # {""}

\* The host of the URL returned: what follows the scheme, up to the path.
HostOf(u) ==
    SubSeq(u, Len(SchemeOf(u)) + 4, SkipNotClass(u, Len(SchemeOf(u)) + 4, {"/"}) - 1)

\* C14: in the reconstruction the scheme is 'http' only when the host ends
\* with the literal suffix ':80', and 'https' for every other host, also for
\* hosts whose port merely ends in the digits 80 (:8080) and hosts without a
\* port.
C14_SchemeOfPort ==
    WasReconstructed =>
       SchemeOf(url[1]) =
          (IF Len(HostOf(url[1])) >= 3
              /\ SubSeq(HostOf(url[1]), Len(HostOf(url[1])) - 2, Len(HostOf(url[1]))) = ":80"
           THEN "http" ELSE "https")

\* C14 of the hosts whose port, if any, does not end in 80 after other
\* digits.
SchemeOfPlainPort ==
    (WasReconstructed /\ HostOf(url[1]) # "h.io:8080") => C14_SchemeOfPort

\* The user was asked to pick the method.
MethodAsked == \E k \in 1..Len(shown) : shown[k].kind = "pick"

\* C15: the prefix stripper is applied to the text before each extractor
\* sees it, and again to the selected raw body before normalizeBody.  What
\* each extractor has returned is what it returns on the stripped text: the
\* URL, the method (asked for only when the stripped text has none), the
\* token, the custom headers and the raw body; and the body of the command
\* is the normalization of the stripped raw body.
C15_StrippedBeforeExtraction ==
    /\ (pc \notin {"read", "done"} \/ url # Absent) =>
          url = extractUrl(stripLogPrefixes(text))
    /\ MethodAsked => Falsy(extractMethod(stripLogPrefixes(text)))
    /\ (method # Absent /\ ~MethodAsked) =>
          method = extractMethod(stripLogPrefixes(text))
    /\ Extracted =>
          /\ token = extractToken(stripLogPrefixes(text))
          /\ customHeaders = extractCustomHeaders(stripLogPrefixes(text))
          /\ rawBody = extractBody(stripLogPrefixes(text))
    /\ bodyJson # Absent =>
          bodyJson[1] = BodyCleaned(normalizeBody(stripLogPrefixes(rawBody[1]))).json

\* The part of C15 about the raw body: it is stripped before it is
\* normalized.
BodyStrippedBeforeNormalization ==
    bodyJson # Absent =>
       bodyJson[1] = BodyCleaned(normalizeBody(stripLogPrefixes(rawBody[1]))).json

(***************************************************************************)
(* Specification of extractCustomHeaders on texts of up to MaxHeaderFrags  *)
(* pieces, in any order.                                                   *)
(***************************************************************************)
MaxHeaderFrags == 3

\* A label with a first header, a label behind a log prefix, headers (one
\* behind a prompt marker, with spaces and a second colon), a separator,
\* and lines that are no headers.
HeaderFragments ==
    { "HEADERS:\nX-A: 1\n", "flutter: Request Header :\n", "X-A: 2\n",
      "> x_b : two: 2 \n", "----\n", "no colon\n", ": v\n",
      "REQUEST BODY: x\n", "X.A: 1\n" }

InitHeaders ==
    /\ pc = "headers"
    /\ text \in TextsOf(HeaderFragments, MaxHeaderFrags)
    /\ StripIdle /\ ScanIdle /\ BodyIdle /\ UnwrapIdle /\ ConvIdle

ExtractHeaders ==
    /\ pc = "headers"
    /\ customHeaders' = extractCustomHeaders(text)
    /\ pc' = "headersDone"
    /\ UNCHANGED <<text, stripVars, scanVars, bodyVars, unwrapVars, url, method,
                   token, bodyJson, curl, shown, emitted>>

NextHeaders == ExtractHeaders

SpecHeaders == InitHeaders /\ [][NextHeaders]_vars

\* The lines of the text, each without log prefix and surrounding space.
CleanedLines == [k \in 1..Len(SplitLines(text)) |-> Trim(stripLogPrefixes(SplitLines(text)[k]))]

\* The place of the first colon of c is p, and it is not the first character.
FirstColonAt(c, p) ==
    p >= 2 /\ At(c, p) = ":" /\ \A q \in 1..(p - 1) : At(c, q) # ":"

\* c is a 'Key: Value' line: no separator line, with a colon after a
\* non-empty key of letters, digits, '_' and '-'.
IsKeyValueLine(c) ==
    /\ ~isSeparatorLine(c)
    /\ \E p \in 2..Len(c) :
          /\ FirstColonAt(c, p)
          /\ Trim(SubSeq(c, 1, p - 1)) # ""
          /\ \A q \in 1..Len(Trim(SubSeq(c, 1, p - 1))) :
                At(Trim(SubSeq(c, 1, p - 1)), q)
                   \in Upper \cup Lower \cup Digit \cup {"_", "-"}

\* The header that a 'Key: Value' line stands for.
KeyValueOf(c) ==
    [key   |-> Trim(SubSeq(c, 1, (CHOOSE p \in 2..Len(c) : FirstColonAt(c, p)) - 1)),
     value |-> Trim(From(c, (CHOOSE p \in 2..Len(c) : FirstColonAt(c, p)) + 1))]

\* The lines of cs that end in HEADERS: or HEADER:, in any letter case.
LabelPlaces(cs) == {k \in 1..Len(cs) : IsHeadersLabel(ToLower(cs[k]))}

\* The length of the longest run of 'Key: Value' lines of cs after line l.
RunAfter(cs, l) ==
    CHOOSE n \in 0..(Len(cs) - l) :
       /\ \A k \in 1..n : IsKeyValueLine(cs[l + k])
       /\ (l + n + 1 <= Len(cs)) => ~IsKeyValueLine(cs[l + n + 1])

\* The headers of the run of length n after line l of cs.
RunHeaders(cs, l, n) == [k \in 1..n |-> KeyValueOf(cs[l + k])]

\* The headers that are to be found in the cleaned lines cs.
ExpectedHeaders(cs) ==
    IF LabelPlaces(cs) = {} THEN <<>>
    ELSE RunHeaders(cs, CHOOSE l \in LabelPlaces(cs) : \A m \in LabelPlaces(cs) : l <= m,
                    RunAfter(cs, CHOOSE l \in LabelPlaces(cs) : \A m \in LabelPlaces(cs) : l <= m))

\* C16: extractCustomHeaders returns exactly the longest run of consecutive
\* 'Key: Value' lines right after the first line ending in HEADERS: or
\* HEADER:, in line order and without deduplication; a separator line, a
\* line without colon or with the colon first, or a line whose key has
\* other characters ends the run for good; the result is empty when there
\* is no such label line.
C16_HeaderRun ==
    pc = "headersDone" => customHeaders = ExpectedHeaders(CleanedLines)

\* A header line after a separator was left out.
C16_Witness ==
    /\ pc = "headersDone"
    /\ text = "HEADERS:\nX-A: 1\n----\nX-A: 2\n"
    /\ customHeaders = << [key |-> "X-A", value |-> "1"] >>

\* A repeated key was kept, and a header behind a prompt marker read.
C16_WitnessRepeated ==
    /\ pc = "headersDone"
    /\ customHeaders = << [key |-> "X-A", value |-> "1"], [key |-> "X-A", value |-> "2"],
                          [key |-> "x_b", value |-> "two: 2"] >>

(***************************************************************************)
(* Specification of normalizeBody on raw bodies of up to MaxNormFrags      *)
(* pieces, in any order.  The call returns JSON text, throws, or never     *)
(* returns.                                                                *)
(***************************************************************************)
MaxNormFrags == 4

NormFragments == { "{a: ", "}", "[", "]", "1", ",", "30 days" }

InitNorm ==
    /\ pc = "norm"
    /\ text \in TextsOf(NormFragments, MaxNormFrags)
    /\ StripIdle /\ ScanIdle /\ BodyIdle /\ UnwrapIdle /\ ConvIdle

NormalizeReturns ==
    /\ pc = "norm"
    /\ normalizeBody(text).st = "ok"
    /\ bodyJson' = Some(normalizeBody(text).out)
    /\ pc' = "normDone"
    /\ UNCHANGED <<text, stripVars, scanVars, bodyVars, unwrapVars, url, method,
                   token, customHeaders, curl, shown, emitted>>

NormalizeThrows ==
    /\ pc = "norm"
    /\ normalizeBody(text).st = "throw"
    /\ pc' = "normThrew"
    /\ UNCHANGED <<text, stripVars, scanVars, bodyVars, unwrapVars, convVars>>

\* The loop of parseArray goes round without reading anything.
NormalizeHangs ==
    /\ pc = "norm"
    /\ normalizeBody(text).st = "diverge"
    /\ pc' = "normHung"
    /\ UNCHANGED <<text, stripVars, scanVars, bodyVars, unwrapVars, convVars>>

NextNorm == NormalizeReturns \/ NormalizeThrows \/ NormalizeHangs

SpecNorm == InitNorm /\ [][NextNorm]_vars

\* Sanity: every raw body tried is interpreted by the model.
NormSupported == pc = "norm" => normalizeBody(text).st # "unsupported"

\* C17: normalizeBody finishes on every input: it returns valid JSON text or
\* fails with a parse error, and never runs for ever, the loops of the
\* tolerant parser reading at least one character in every round.
C17_NormalizeTerminates ==
    /\ pc \in {"norm", "normDone", "normThrew"}
    /\ pc = "normDone" => JsonParse(bodyJson[1]).st = "ok"

\* C17 of the bodies in which every '[' is closed by a ']' before any '}'
\* and before the end.
ReturnsValidJson == pc = "normDone" => JsonParse(bodyJson[1]).st = "ok"

\* C20: an unquoted value is read as a number only when the numeric literal
\* is immediately followed by ',', '}', ']' or the end of input; a value
\* that begins with digits and goes on with other text after white space
\* is emitted as one JSON string up to the next terminator, and
\* normalization succeeds.
C20_NumberNeedsDelimiter ==
    /\ (pc # "norm" /\ text \in {"{a: 30 days}", "{a: 30 days,}"}) =>
          /\ pc = "normDone"
          /\ bodyJson = Some("{\n  \"a\": \"30 days\"\n}")
    /\ (pc # "norm" /\ text \in {"{a: 1}", "{a: 1,}"}) =>
          /\ pc = "normDone"
          /\ bodyJson = Some("{\n  \"a\": 1\n}")

\* The part of C20 about a number that a delimiter follows.
NumberBeforeDelimiter ==
    (pc # "norm" /\ text \in {"{a: 1}", "{a: 1,}"}) =>
       /\ pc = "normDone"
       /\ bodyJson = Some("{\n  \"a\": 1\n}")

(***************************************************************************)
(* Empty blocks in the selection of extractBody (SpecBody).                *)
(***************************************************************************)
\* The block has no key: scoreBlock gives it -100.
EmptyKeys(content) == Len(extractRawKeys(content)) = 0

\* extractBody went through the scoring of two blocks or more, one of them
\* with a key.
ScoredWithKeys ==
    /\ pc = "bodyDone"
    /\ Len(blocks) >= 2
    /\ \E k \in 1..Len(blocks) : ~EmptyKeys(blocks[k].content)

\* C18: a block with no key scores -100 and is never returned by extractBody
\* when the text has two blocks or more of which one has a key, since no
\* combination of penalties brings a block with keys to -100 or below.
C18_EmptyBlockNeverChosen ==
    /\ pc = "bodyDone" =>
          \A k \in 1..Len(scored) :
             IF EmptyKeys(scored[k].block.content)
             THEN scored[k].score = -100
             ELSE scored[k].score > -100
    /\ ScoredWithKeys => ~EmptyKeys(rawBody[1])

\* What holds of C18: a block with no key scores -100, a block with keys
\* scores -115 or more (header marker, majority of header keys, significant
\* meta keys, and the bonus for three keys that the two key penalties
\* together imply), and the block returned has a key as soon as some block
\* with keys scores above -100.
EmptyBlockBelowBetter ==
    /\ pc = "bodyDone" =>
          \A k \in 1..Len(scored) :
             IF EmptyKeys(scored[k].block.content)
             THEN scored[k].score = -100
             ELSE scored[k].score >= -50 - 40 - 30 + 5
    /\ (/\ ScoredWithKeys
        /\ \E k \in 1..Len(scored) :
              /\ ~EmptyKeys(scored[k].block.content)
              /\ scored[k].score > -100)
          => ~EmptyKeys(rawBody[1])

(***************************************************************************)
(* Backslashes in the block scanner (SpecScan).                            *)
(***************************************************************************)
\* The character at position p of s follows an escaping backslash: the run
\* of backslashes that ends just before it has odd length.
Escaped(s, p) == BackslashesBefore(s, p) % 2 = 1

\* The loop is about to read a quote or a brace that a backslash escapes.
AtEscapedMark ==
    /\ pc = "scan"
    /\ i < Len(text)
    /\ At(text, i + 1) \in {"\"", "'", "{", "}"}
    /\ Escaped(text, i + 1)

C19_Step ==
    AtEscapedMark =>
       /\ inString' = inString
       /\ depth' = depth
       /\ blockStart' = blockStart
       /\ blocks' = blocks

\* C19: a backslash escapes the next character both inside and outside
\* quoted strings: a quote or brace that follows an escaping backslash never
\* opens or closes a string and never changes the brace depth, wherever it
\* is in the text.
C19_BackslashEscapesEverywhere == [][C19_Step]_vars

\* C19 inside quoted strings: there the loop never reads an escaped quote or
\* brace, the step at the backslash takes it along.
EscapedInsideString == ~(AtEscapedMark /\ inString)

(***************************************************************************)
(* Specification of the two string parsers of LogBodyParser.  text is what *)
(* stands between the quotes, of up to MaxQuotedLen characters; each       *)
(* parser is called at the opening quote of the text put in its quotes.    *)
(***************************************************************************)
MaxQuotedLen == 4

QuotedAlphabet == {"\\", "\"", "'", "n", "q"}

InitQuoted ==
    /\ pc = "quoted"
    /\ text \in TextsOf(QuotedAlphabet, MaxQuotedLen)
    /\ StripIdle /\ ScanIdle /\ BodyIdle /\ UnwrapIdle /\ ConvIdle

\* parseDoubleQuotedString on "text": the literal it returns.
ParseDoubleQuoted ==
    /\ pc = "quoted"
    /\ bodyJson' = Some(DoubleQuoted("\"" \o text \o "\"", 2, "").out)
    /\ pc' = "doubleDone"
    /\ UNCHANGED <<text, stripVars, scanVars, bodyVars, unwrapVars, url, method,
                   token, customHeaders, curl, shown, emitted>>

\* parseSingleQuotedString on 'text': the literal it returns.
ParseSingleQuoted ==
    /\ pc = "quoted"
    /\ bodyJson' = Some(SingleQuoted("'" \o text \o "'", 2, "").out)
    /\ pc' = "singleDone"
    /\ UNCHANGED <<text, stripVars, scanVars, bodyVars, unwrapVars, url, method,
                   token, customHeaders, curl, shown, emitted>>

NextQuoted == ParseDoubleQuoted \/ ParseSingleQuoted

SpecQuoted == InitQuoted /\ [][NextQuoted]_vars

\* s is the inside of one string in quotes q: every q in it follows an
\* escaping backslash, and so does no closing quote put after it.
WholeString(s, q) ==
    /\ \A p \in 1..Len(s) : At(s, p) = q => Escaped(s, p)
    /\ ~Escaped(s, Len(s) + 1)

\* The escapes of JSON among the characters tried.
RecognizedEscapes == {"\"", "\\", "/", "b", "f", "n", "r", "t", "u"}

\* The content the stated rule gives for s from position p on: a recognized
\* escape keeps its backslash, another escape loses it, a literal double
\* quote gets one, every other character is copied.
RECURSIVE StatedContent(_, _)
StatedContent(s, p) ==
    IF p > Len(s) THEN ""
    ELSE IF At(s, p) = "\\"
         THEN (IF At(s, p + 1) \in RecognizedEscapes
               THEN "\\" \o At(s, p + 1) ELSE At(s, p + 1))
              \o StatedContent(s, p + 2)
    ELSE IF At(s, p) = "\"" THEN "\\\"" \o StatedContent(s, p + 1)
    ELSE At(s, p) \o StatedContent(s, p + 1)

StatedLiteral(s) == "\"" \o StatedContent(s, 1) \o "\""

\* C21: the tolerant parser treats escapes the same way in double-quoted and
\* single-quoted strings: a recognized JSON escape keeps its backslash, an
\* unrecognized escape loses it, every literal or escaped double quote in a
\* single-quoted string comes out escaped, and the literal emitted is valid
\* JSON.
C21_SameEscapesInBothQuotes ==
    /\ (pc = "doubleDone" /\ WholeString(text, "\"")) =>
          /\ bodyJson = Some(StatedLiteral(text))
          /\ JsonParse(bodyJson[1]).st = "ok"
    /\ (pc = "singleDone" /\ WholeString(text, "'")) =>
          /\ bodyJson = Some(StatedLiteral(text))
          /\ JsonParse(bodyJson[1]).st = "ok"

\* No backslash in s.
NoBackslash(s) == \A p \in 1..Len(s) : At(s, p) # "\\"

\* What holds of C21: the rule as stated in double-quoted strings, and in
\* single-quoted strings without a backslash (there a literal double quote
\* comes out escaped).
EscapesInDoubleQuotes ==
    /\ (pc = "doubleDone" /\ WholeString(text, "\"")) =>
          /\ bodyJson = Some(StatedLiteral(text))
          /\ JsonParse(bodyJson[1]).st = "ok"
    /\ (pc = "singleDone" /\ WholeString(text, "'") /\ NoBackslash(text)) =>
          /\ bodyJson = Some(StatedLiteral(text))
          /\ JsonParse(bodyJson[1]).st = "ok"
=============================================================================
